---------------------------- MODULE Spec2Model ----------------------------
(***************************************************************************)
(* A model of minkraft's chunked level-of-detail voxel world: the LOD      *)
(* controller (level_of_detail.rs), the mesh command queue and mesh        *)
(* generator (mesh_generator.rs), the crossfade (mesh_fade.rs) and the     *)
(* chunk generator's command queue (chunk_generator.rs).                   *)
(*                                                                         *)
(* Conventions                                                             *)
(*  - A point is a triple <<x, y, z>>.  A LodChunkKey3 is <<lod, x, y, z>>, *)
(*    the chunk's coordinate counted in chunks of that lod.                *)
(*  - A VecDeque is a sequence whose element 1 is the FRONT and whose last *)
(*    element is the BACK.                                                 *)
(*  - Camera positions are kept in half voxels, so that the flooring of    *)
(*    Point3f::in_voxel is computed (8.5 is 17, -3.5 is -7).               *)
(*  - Time is counted in ticks of 1/16 s: FADE_DURATION = 0.25 s = 4.      *)
(***************************************************************************)
EXTENDS Integers, Sequences, FiniteSets, TLC

VARIABLES
    pc,                \* the system that runs next
    app_state,         \* State<AppState>, or "Panicked" after a failed unwrap
    voxel_map_config,  \* VoxelMapConfig
    thread_num,        \* ComputeTaskPool::thread_num()
    camera,            \* the tagged camera's translation (half voxels), or NoCamera
    moves_left,        \* how often the environment may still move the camera
    places,            \* the places the environment moves the camera to
    time_delta,        \* Time::delta_seconds() of the running frame, in ticks
    lod_state,         \* LodState.old_lod0_center
    mesh_commands,     \* MeshCommandQueue.commands
    chunk_meshes,      \* ChunkMeshes: [entities, remove_queue], key -> entity
    world,             \* the live chunk mesh entities: entity -> components
    next_entity,       \* the next fresh Entity id
    mesh_assets,       \* Assets<Mesh>: the handles not yet removed
    meshable,          \* the keys whose chunk has a visible face
    lod_note,          \* what the last level_of_detail_system run did
    clipmap_call,      \* the centers of the last clipmap query of the index
    mesh_note,         \* what the last mesh_generator_system run did
    despawn_note,      \* what the last mesh_despawn_system run despawned
    chunk_commands,    \* ChunkCommandQueue.commands
    lod0_chunks,       \* the keys of the chunks stored in pyramid level 0
    chunk_note,        \* what the last chunk_generator_system run did
    voxel_map_index,   \* the level-0 chunks VoxelMap.index was built from
    voxels,            \* the voxels of one pyramid level around one chunk
    neighborhood_buffer, \* LocalSurfaceNetsBuffers.neighborhood_buffer
    mesh_result,       \* what create_mesh_for_chunk returned
    buffer_extent,     \* the extent of a thread's neighborhood_buffer, once created
    keyboard_input,    \* Input<KeyCode>: the keys just pressed in the running frame
    keys_left,         \* in how many frames the environment may still press keys
    empty_meshes       \* the keys whose mesh buffer comes back without indices

\* The mesh pipeline's variables but pc and camera, the chunk pipeline's,
\* and those of one meshing task.
render_vars == <<app_state, voxel_map_config, thread_num, moves_left, places, time_delta,
                 lod_state, mesh_commands, chunk_meshes, world, next_entity,
                 mesh_assets, meshable, lod_note, clipmap_call, mesh_note,
                 despawn_note>>
chunk_vars == <<chunk_commands, lod0_chunks, chunk_note, voxel_map_index>>
voxel_vars == <<voxels, neighborhood_buffer, mesh_result, buffer_extent>>
input_vars == <<keyboard_input, keys_left, empty_meshes>>

vars == <<pc, camera, render_vars, chunk_vars, voxel_vars, input_vars>>

---------------------------------------------------------------------------
(* Bounds of the model *)

\* The side of the world in lod-0 chunks (CHUNKS_SHAPE is 100 in the source).
ModelChunksShape == 8
\* The largest ComputeTaskPool size tried.
MaxThreads == 2
\* How many times the camera changes place in one run.
MaxMoves == 1
\* The longest frame, in ticks.
MaxDt == 1
\* The camera visits the chunks -CameraRange .. CameraRange along x.
CameraRange == 1
\* The longest ChunkCommandQueue followed.
MaxPending == 60
\* How many chunks away from the spawn point a far place of the camera is.
FarShift == 5
\* The FadeUniforms tried: durations and delays up to these, and frame times
\* up to MaxFadeDt ticks.
MaxDuration == 3
MaxDelay == 2
MaxFadeDt == 3
\* The side of a chunk followed voxel by voxel, and the materials tried.
ChunkSide == 2
MaxMaterial == 2
\* The arguments VoxelMapConfig::new is tried on: num_lods up to MaxLodsTried
\* and the radii 2^0 .. 2^MaxRadiusLog2.
MaxLodsTried == 7
MaxRadiusLog2 == 2
\* Frames in which configuration keys are pressed.
MaxKeyPresses == 1
\* The longest run of chunk commands of any kind at either end of a queue.
MaxMixedLen == 2
\* Commands in a MeshCommandQueue given as input.
MaxQueueLen == 2

---------------------------------------------------------------------------
(* Points and shifts *)

NoCamera == <<>>

Max(a, b) == IF a >= b THEN a ELSE b
Min(a, b) == IF a <= b THEN a ELSE b
Abs(a) == IF a >= 0 THEN a ELSE -a

\* i32 >> n: the arithmetic shift, which floors.
Shr(a, n) == a \div (2 ^ n)
PointShr(p, n) == <<Shr(p[1], n), Shr(p[2], n), Shr(p[3], n)>>
PointAdd(p, q) == <<p[1] + q[1], p[2] + q[2], p[3] + q[3]>>
PointMul(p, n) == <<p[1] * n, p[2] * n, p[3] * n>>

\* Point3f::in_voxel(): floor of every component (p is in half voxels).
in_voxel(p) == <<p[1] \div 2, p[2] \div 2, p[3] \div 2>>

SeqToSet(s) == { s[i] : i \in 1..Len(s) }

\* e, with v evaluated first: it keeps the evaluation of a long loop shallow.
AfterValue(v, e) == IF v = v THEN e ELSE e

---------------------------------------------------------------------------
(* VoxelMapConfig *)

CHUNKS_MINIMUM_XZ == -(ModelChunksShape \div 2)
CHUNKS_MINIMUM_Y == 0
CHUNKS_SHAPE == ModelChunksShape
CHUNKS_THICKNESS == 1

VoxelMapConfig_new(chunk_log2, num_lods, clip_box_radius) ==
    [ chunk_log2 |-> chunk_log2,
      chunk_shape |-> <<2 ^ chunk_log2, 2 ^ chunk_log2, 2 ^ chunk_log2>>,
      num_lods |-> num_lods,
      superchunk_shape |-> <<2 ^ (chunk_log2 + num_lods - 1),
                             2 ^ (chunk_log2 + num_lods - 1),
                             2 ^ (chunk_log2 + num_lods - 1)>>,
      clip_box_radius |-> clip_box_radius,
      world_chunks_minimum |-> <<CHUNKS_MINIMUM_XZ, CHUNKS_MINIMUM_Y, CHUNKS_MINIMUM_XZ>>,
      world_chunks_shape |-> <<CHUNKS_SHAPE, CHUNKS_THICKNESS, CHUNKS_SHAPE>>,
      world_voxel_minimum |-> <<CHUNKS_MINIMUM_XZ * 2 ^ chunk_log2,
                                CHUNKS_MINIMUM_Y * 2 ^ chunk_log2,
                                CHUNKS_MINIMUM_XZ * 2 ^ chunk_log2>>,
      world_voxel_shape |-> <<CHUNKS_SHAPE * 2 ^ chunk_log2,
                              CHUNKS_THICKNESS * 2 ^ chunk_log2,
                              CHUNKS_SHAPE * 2 ^ chunk_log2>> ]

\* SPAWN_POINT = [8.5, 641.0, -3.5], in half voxels.
SPAWN_POINT == <<17, 1282, -7>>

MAX_CLIP_BOX_RADIUS == 32
MAX_CHUNK_LOG2 == 6
MAX_LODS == 6

\* The keys voxel_map_config_update_system listens to.
Keys == {"R", "C", "L"}

\* The L key without `if num_lods > MAX_LODS { num_lods = 1 }`.
key_L_no_wrap(cfg) ==
    VoxelMapConfig_new(cfg.chunk_log2, cfg.num_lods + 1, cfg.clip_box_radius)

\* The three `if keyboard_input.just_pressed(..)` blocks.
key_R(cfg) ==
    [cfg EXCEPT !.clip_box_radius =
        IF 2 * cfg.clip_box_radius > MAX_CLIP_BOX_RADIUS THEN 1
        ELSE 2 * cfg.clip_box_radius]
key_C(cfg) ==
    VoxelMapConfig_new(IF cfg.chunk_log2 + 1 > MAX_CHUNK_LOG2 THEN 1
                       ELSE cfg.chunk_log2 + 1,
                       cfg.num_lods, cfg.clip_box_radius)
key_L(cfg) ==
    VoxelMapConfig_new(cfg.chunk_log2,
                       IF cfg.num_lods + 1 > MAX_LODS THEN 1 ELSE cfg.num_lods + 1,
                       cfg.clip_box_radius)

\* voxel_map_config_update_system on the keys just pressed: R, then C, then L.
voxel_map_config_update(cfg, just_pressed) ==
    LET after_R == IF "R" \in just_pressed THEN key_R(cfg) ELSE cfg
        after_C == IF "C" \in just_pressed THEN key_C(after_R) ELSE after_R
    IN  IF "L" \in just_pressed THEN key_L(after_C) ELSE after_C

---------------------------------------------------------------------------
(* The octree chunk index and its two clipmap queries                      *)

LodChunkKey(lod, p) == <<lod, p[1], p[2], p[3]>>
KeyLod(key) == key[1]
KeyPoint(key) == <<key[2], key[3], key[4]>>

\* The lod-0 chunks of the map: every chunk of world_chunks_extent.
Occupied(cfg, c) ==
    \A i \in 1..3 :
        /\ c[i] >= cfg.world_chunks_minimum[i]
        /\ c[i] < cfg.world_chunks_minimum[i] + cfg.world_chunks_shape[i]

\* The octree holds the octant p of level lod when a lod-0 chunk lies in it.
NodeExists(cfg, lod, p) ==
    \A i \in 1..3 :
        /\ (p[i] + 1) * (2 ^ lod) > cfg.world_chunks_minimum[i]
        /\ p[i] * (2 ^ lod) < cfg.world_chunks_minimum[i] + cfg.world_chunks_shape[i]

\* Extent3i::iter_points: the points of an extent, x running fastest.
iter_points(minimum, shape) ==
    [ i \in 1..(shape[1] * shape[2] * shape[3]) |->
        << minimum[1] + ((i - 1) % shape[1]),
           minimum[2] + (((i - 1) \div shape[1]) % shape[2]),
           minimum[3] + ((i - 1) \div (shape[1] * shape[2])) >> ]

\* The roots: one octree per superchunk that holds a chunk, in the order
\* they are visited.
Superchunks(cfg) ==
    LET top == cfg.num_lods - 1
        lo(i) == Shr(cfg.world_chunks_minimum[i], top)
        hi(i) == Shr(cfg.world_chunks_minimum[i] + cfg.world_chunks_shape[i] - 1, top)
    IN  iter_points(<<lo(1), lo(2), lo(3)>>,
                    <<hi(1) - lo(1) + 1, hi(2) - lo(2) + 1, hi(3) - lo(3) + 1>>)

\* The eight children of an octant, in octant order.
ChildOffsets ==
    << <<0, 0, 0>>, <<1, 0, 0>>, <<0, 1, 0>>, <<1, 1, 0>>,
       <<0, 0, 1>>, <<1, 0, 1>>, <<0, 1, 1>>, <<1, 1, 1>> >>
Child(p, i) ==
    <<2 * p[1] + ChildOffsets[i][1], 2 * p[2] + ChildOffsets[i][2],
      2 * p[3] + ChildOffsets[i][3]>>

\* The clip box of every lod is centered on the lod-0 center shifted to it.
get_offset_from_lod_center(lod, p, lod0_center) ==
    LET c == PointShr(lod0_center, lod)
    IN  Max(Abs(p[1] - c[1]), Max(Abs(p[2] - c[2]), Abs(p[3] - c[3])))

high_lod_boundary(cfg) == Shr(cfg.clip_box_radius, 1)

\* The active chunks below (and including) an octant: the octant itself when
\* it is of lod 0 or outside the clip box of its lod, else those of its
\* children.
RECURSIVE ActiveBelow(_, _, _, _), ActiveChildren(_, _, _, _, _)
ActiveBelow(cfg, lod, p, center) ==
    IF ~NodeExists(cfg, lod, p) THEN <<>>
    ELSE IF lod = 0 \/ get_offset_from_lod_center(lod, p, center) > high_lod_boundary(cfg)
    THEN <<LodChunkKey(lod, p)>>
    ELSE ActiveChildren(cfg, lod, p, center, 1)
ActiveChildren(cfg, lod, p, center, i) ==
    IF i > 8 THEN <<>>
    ELSE ActiveBelow(cfg, lod - 1, Child(p, i), center)
            \o ActiveChildren(cfg, lod, p, center, i + 1)

\* The active chunks of the octrees roots[lo], ..., roots[hi], in this order.
RECURSIVE ActiveOver(_, _, _, _, _)
ActiveOver(cfg, roots, lo, hi, center) ==
    IF lo > hi THEN <<>>
    ELSE IF lo = hi THEN ActiveBelow(cfg, cfg.num_lods - 1, roots[lo], center)
    ELSE LET mid == (lo + hi) \div 2
         IN  ActiveOver(cfg, roots, lo, mid, center)
                \o ActiveOver(cfg, roots, mid + 1, hi, center)

\* OctreeChunkIndex::active_clipmap_lod_chunks: the keys handed to the callback.
active_clipmap_lod_chunks(cfg, lod0_center) ==
    ActiveOver(cfg, Superchunks(cfg), 1, Len(Superchunks(cfg)), lod0_center)

Split(old_chunk, new_chunks) ==
    [type |-> "Split", chunk |-> old_chunk, chunks |-> new_chunks]
Merge(old_chunks, new_chunk) ==
    [type |-> "Merge", chunk |-> new_chunk, chunks |-> old_chunks]

RECURSIVE UpdatesBelow(_, _, _, _, _), UpdatesChildren(_, _, _, _, _, _)
UpdatesBelow(cfg, lod, p, old_center, new_center) ==
    IF ~NodeExists(cfg, lod, p) \/ lod = 0 THEN <<>>
    ELSE LET old_offset == get_offset_from_lod_center(lod, p, old_center)
             offset == get_offset_from_lod_center(lod, p, new_center)
             b == high_lod_boundary(cfg)
         IN  IF old_offset > b /\ offset <= b
             THEN <<Split(LodChunkKey(lod, p), ActiveChildren(cfg, lod, p, new_center, 1))>>
             ELSE IF offset > b /\ old_offset <= b
             THEN <<Merge(ActiveChildren(cfg, lod, p, old_center, 1), LodChunkKey(lod, p))>>
             ELSE IF offset > b /\ old_offset > b
             THEN <<>>
             ELSE UpdatesChildren(cfg, lod, p, old_center, new_center, 1)
UpdatesChildren(cfg, lod, p, old_center, new_center, i) ==
    IF i > 8 THEN <<>>
    ELSE UpdatesBelow(cfg, lod - 1, Child(p, i), old_center, new_center)
            \o UpdatesChildren(cfg, lod, p, old_center, new_center, i + 1)

RECURSIVE UpdatesOver(_, _, _, _, _, _)
UpdatesOver(cfg, roots, lo, hi, old_center, new_center) ==
    IF lo > hi THEN <<>>
    ELSE IF lo = hi
    THEN UpdatesBelow(cfg, cfg.num_lods - 1, roots[lo], old_center, new_center)
    ELSE LET mid == (lo + hi) \div 2
         IN  UpdatesOver(cfg, roots, lo, mid, old_center, new_center)
                \o UpdatesOver(cfg, roots, mid + 1, hi, old_center, new_center)

\* OctreeChunkIndex::find_clipmap_chunk_updates: the updates handed to the
\* callback, in order.
find_clipmap_chunk_updates(cfg, old_center, new_center) ==
    UpdatesOver(cfg, Superchunks(cfg), 1, Len(Superchunks(cfg)), old_center, new_center)

---------------------------------------------------------------------------
(* Finite maps (SmallKeyHashMap) *)

\* insert puts or replaces the entry of k; remove takes it out.  (f @@ g is
\* f extended by g where f has no entry.)
EmptyMap == <<>>
MapInsert(m, k, v) == (k :> v) @@ m
MapRemove(m, k) == [x \in DOMAIN m \ {k} |-> m[x]] @@ EmptyMap

---------------------------------------------------------------------------
(* mesh_fade.rs *)

\* Time is counted in ticks of 1/16 s: FADE_DURATION, 0.25 s, is 4 ticks.
FADE_DURATION == 4

FADE_IN == [duration |-> FADE_DURATION, remaining |-> FADE_DURATION,
            delay |-> 0, fade_in |-> TRUE]
FADE_OUT == [duration |-> FADE_DURATION, remaining |-> FADE_DURATION,
             delay |-> 0, fade_in |-> FALSE]

\* f32::clamp(v, lo, hi), for lo <= hi.
clamp(v, lo, hi) == IF v < lo THEN lo ELSE IF v > hi THEN hi ELSE v

\* An update that counts the whole frame time against remaining on the step
\* that uses up the delay.
fade_update_whole_delta(fade, time_delta_seconds) ==
    IF fade.delay > 0 /\ fade.delay > time_delta_seconds
    THEN [fade EXCEPT !.delay = fade.delay - time_delta_seconds]
    ELSE [fade EXCEPT !.delay = IF fade.delay > 0 THEN 0 ELSE fade.delay,
                      !.remaining = clamp(fade.remaining - time_delta_seconds,
                                          0, fade.duration)]

\* The body of mesh_fade_update_system's loop, for one FadeUniform.
fade_update(fade, time_delta_seconds) ==
    IF fade.delay > 0 /\ fade.delay > time_delta_seconds
    THEN [fade EXCEPT !.delay = fade.delay - time_delta_seconds]
    ELSE LET dt == IF fade.delay > 0 THEN time_delta_seconds - fade.delay
                   ELSE time_delta_seconds
         IN  [fade EXCEPT !.delay = IF fade.delay > 0 THEN 0 ELSE fade.delay,
                          !.remaining = clamp(fade.remaining - dt, 0, fade.duration)]

---------------------------------------------------------------------------
(* mesh_generator.rs *)

MESH_CREATIONS_PER_THREAD == 40

max_mesh_creations_per_frame(threads) == MESH_CREATIONS_PER_THREAD * threads

\* MeshCommandQueue::enqueue: push_front.
enqueue(commands, command) == <<command>> \o commands

\* enqueue called on every element of a stream in turn: the last one
\* enqueued ends at the front.
enqueue_all(commands, stream) ==
    IF stream = <<>> THEN commands
    ELSE [i \in 1..Len(stream) |-> stream[Len(stream) + 1 - i]] \o commands

Create(lod_key) == [type |-> "Create", chunk |-> lod_key, chunks |-> <<>>]
Update(update) == update

\* create_mesh_for_chunk seen from the mesh generator: None for a chunk
\* without a visible face, else a mesh buffer.
MeshFor(visible, lod_key) == IF lod_key \in visible THEN "Some" ELSE "None"

\* The Option<MeshBuf> of a task: None for a chunk without a visible face,
\* else a buffer with the 6 indices add_quad pushes for every quad (a chunk
\* with a visible face is given 6 quads, one a side); the buffers of the
\* keys in hollow have no indices at all.
MeshBufFor(visible, hollow, lod_key) ==
    [some |-> MeshFor(visible, lod_key) = "Some" \/ lod_key \in hollow,
     indices |-> IF MeshFor(visible, lod_key) = "Some" /\ lod_key \notin hollow
                 THEN 6 * 6 ELSE 0]

\* padded_greedy_quads_chunk_extent(extent_for_chunk_at_key(key)): the
\* chunk's extent, in voxels of its level, with one voxel added all around.
padded_chunk_extent(cfg, lod_key) ==
    [created |-> TRUE,
     minimum |-> PointAdd(PointMul(KeyPoint(lod_key), cfg.chunk_shape[1]),
                          <<-1, -1, -1>>),
     shape |-> PointAdd(cfg.chunk_shape, <<2, 2, 2>>)]

\* The thread-local buffer after get_or_create_with and set_minimum: made
\* with the padded extent when the thread has none, else only moved.
local_neighborhood_buffer(extent, padded) ==
    IF extent.created THEN [extent EXCEPT !.minimum = padded.minimum] ELSE padded

\* An entity given the rigid body and the collider at every lod.
ChunkMeshEntity_collider_at_every_lod(lod_chunk_key, mesh, indices, fade) ==
    [lod_chunk_key |-> lod_chunk_key, fade |-> fade, mesh |-> mesh,
     indices |-> indices, collider |-> TRUE, body |-> "Static",
     triangles |-> indices \div 3]

\* The components spawn_mesh_entities gives an entity: the render mesh (its
\* handle, the length of its index list), the fade, the key, and at lod 0 a
\* static rigid body with a trimesh collider of indices.chunks(3) triangles.
ChunkMeshEntity(lod_chunk_key, mesh, indices, fade) ==
    [lod_chunk_key |-> lod_chunk_key, fade |-> fade, mesh |-> mesh,
     indices |-> indices,
     collider |-> (KeyLod(lod_chunk_key) = 0),
     body |-> IF KeyLod(lod_chunk_key) = 0 THEN "Static" ELSE "None",
     triangles |-> IF KeyLod(lod_chunk_key) = 0 THEN indices \div 3 ELSE 0]

\* s.spawn(create_mesh_for_chunk(lod_key)) under `if !entities.contains_key`.
spawn_task(st, lod_key) ==
    IF lod_key \notin DOMAIN st.entities
    THEN [st EXCEPT !.num_meshes_created = @ + 1, !.tasks = Append(@, lod_key)]
    ELSE st

RECURSIVE spawn_tasks(_, _)
spawn_tasks(st, lod_keys) ==
    IF lod_keys = <<>> THEN st
    ELSE IF Len(lod_keys) = 1 THEN spawn_task(st, lod_keys[1])
    ELSE LET half == Len(lod_keys) \div 2
             first == spawn_tasks(st, SubSeq(lod_keys, 1, half))
         IN  AfterValue(first,
                spawn_tasks(first, SubSeq(lod_keys, half + 1, Len(lod_keys))))

\* A retirement that leaves the entity in ChunkMeshes.entities.
retire_chunk_keeps_entity(st, lod_key) ==
    IF lod_key \in DOMAIN st.entities
    THEN LET entity == st.entities[lod_key]
         IN  [st EXCEPT !.remove_queue = MapInsert(@, lod_key, entity),
                        !.world = [@ EXCEPT ![entity].fade = FADE_OUT],
                        !.retired = @ \cup {entity}]
    ELSE st

\* A retirement that forgets remove_queue.insert.
retire_chunk_without_queue(st, lod_key) ==
    IF lod_key \in DOMAIN st.entities
    THEN LET entity == st.entities[lod_key]
         IN  [st EXCEPT !.entities = MapRemove(@, lod_key),
                        !.world = [@ EXCEPT ![entity].fade = FADE_OUT],
                        !.retired = @ \cup {entity}]
    ELSE st

\* entities.remove(key), remove_queue.insert(key, ..), insert(FADE_OUT).
retire_chunk(st, lod_key) ==
    IF lod_key \in DOMAIN st.entities
    THEN LET entity == st.entities[lod_key]
         IN  [st EXCEPT !.entities = MapRemove(@, lod_key),
                        !.remove_queue = MapInsert(@, lod_key, entity),
                        !.world = [@ EXCEPT ![entity].fade = FADE_OUT],
                        !.retired = @ \cup {entity}]
    ELSE st

RECURSIVE retire_chunks(_, _)
retire_chunks(st, lod_keys) ==
    IF lod_keys = <<>> THEN st
    ELSE IF Len(lod_keys) = 1 THEN retire_chunk(st, lod_keys[1])
    ELSE LET half == Len(lod_keys) \div 2
             first == retire_chunks(st, SubSeq(lod_keys, 1, half))
         IN  AfterValue(first,
                retire_chunks(first, SubSeq(lod_keys, half + 1, Len(lod_keys))))

\* The match with a Create arm that lacks `if !entities.contains_key`.
apply_command_create_unchecked(st, command) ==
    IF command.type = "Create"
    THEN [st EXCEPT !.num_meshes_created = @ + 1,
                    !.tasks = Append(@, command.chunk),
                    !.num_creates = @ + 1]
    ELSE IF command.type = "Split"
    THEN spawn_tasks([retire_chunk(st, command.chunk) EXCEPT !.num_updates = @ + 1],
                     command.chunks)
    ELSE spawn_task([retire_chunks(st, command.chunks) EXCEPT !.num_updates = @ + 1],
                    command.chunk)

\* The match on one command in apply_mesh_commands.
apply_command(st, command) ==
    IF command.type = "Create"
    THEN IF command.chunk \notin DOMAIN st.entities
         THEN [spawn_task(st, command.chunk) EXCEPT !.num_creates = @ + 1]
         ELSE st
    ELSE IF command.type = "Split"
    THEN spawn_tasks([retire_chunk(st, command.chunk) EXCEPT !.num_updates = @ + 1],
                     command.chunks)
    ELSE spawn_task([retire_chunks(st, command.chunks) EXCEPT !.num_updates = @ + 1],
                    command.chunk)

\* One turn of the loop of apply_mesh_commands, on commands[i]: the match,
\* then the test that breaks out of the loop.
apply_turn(commands, i, st, first_run, num_chunks_to_mesh) ==
    LET st1 == [apply_command(st, commands[i]) EXCEPT !.order = Append(@, i)]
    IN  [st1 EXCEPT !.broke = ~first_run /\ st1.num_meshes_created >= num_chunks_to_mesh]

\* A loop over commands.iter() instead: the turns from the front of the
\* deque towards its back.
RECURSIVE apply_loop_front_first(_, _, _, _, _, _)
apply_loop_front_first(commands, hi, lo, st, first_run, num_chunks_to_mesh) ==
    IF st.broke \/ hi < lo THEN st
    ELSE IF hi = lo THEN apply_turn(commands, hi, st, first_run, num_chunks_to_mesh)
    ELSE LET mid == (hi + lo) \div 2
         IN  apply_loop_front_first(commands, hi, mid + 1,
                 apply_loop_front_first(commands, mid, lo, st, first_run,
                                        num_chunks_to_mesh),
                 first_run, num_chunks_to_mesh)

\* The loop over commands.iter().rev(): the turns on commands[hi], ...,
\* commands[lo] in this order (from the back of the deque towards its
\* front), none after a break.
RECURSIVE apply_loop(_, _, _, _, _, _)
apply_loop(commands, hi, lo, st, first_run, num_chunks_to_mesh) ==
    IF st.broke \/ hi < lo THEN st
    ELSE IF hi = lo THEN apply_turn(commands, hi, st, first_run, num_chunks_to_mesh)
    ELSE LET mid == (hi + lo) \div 2
         IN  apply_loop(commands, mid, lo,
                 apply_loop(commands, hi, mid + 1, st, first_run, num_chunks_to_mesh),
                 first_run, num_chunks_to_mesh)

apply_mesh_commands(commands, meshes, entities_world, threads, first_run) ==
    LET num_chunks_to_mesh == Min(Len(commands), max_mesh_creations_per_frame(threads))
        st0 == [entities |-> meshes.entities, remove_queue |-> meshes.remove_queue,
                world |-> entities_world, tasks |-> <<>>, retired |-> {},
                num_creates |-> 0, num_updates |-> 0, num_meshes_created |-> 0,
                order |-> <<>>, broke |-> FALSE]
        st == apply_loop(commands, Len(commands), 1, st0, first_run, num_chunks_to_mesh)
        new_length == Len(commands) - (st.num_creates + st.num_updates)
    IN  [entities |-> st.entities, remove_queue |-> st.remove_queue,
         world |-> st.world, tasks |-> st.tasks, retired |-> st.retired,
         num_creates |-> st.num_creates, num_updates |-> st.num_updates,
         num_meshes_created |-> st.num_meshes_created, order |-> st.order,
         commands |-> SubSeq(commands, 1, new_length),
         num_chunks_to_mesh |-> num_chunks_to_mesh]

\* An iteration without `if mesh_buf.indices.is_empty()`.
spawn_mesh_entity_no_empty_check(sp, lod_chunk_key, item) ==
    LET had == lod_chunk_key \in DOMAIN sp.entities
        old_mesh == IF had THEN {sp.entities[lod_chunk_key]} ELSE {}
    IN  IF item.some
        THEN LET entity == sp.next_entity
                 spawned ==
                     MapInsert(sp.world, entity,
                         ChunkMeshEntity(lod_chunk_key, entity, item.indices, FADE_IN))
             IN  [sp EXCEPT
                    !.next_entity = @ + 1,
                    !.mesh_assets = @ \cup {entity},
                    !.entities = MapInsert(@, lod_chunk_key, entity),
                    !.world = IF had
                              THEN [spawned EXCEPT
                                      ![sp.entities[lod_chunk_key]].fade = FADE_OUT]
                              ELSE spawned,
                    !.replaced = @ \cup old_mesh]
        ELSE [sp EXCEPT
                    !.entities = MapRemove(@, lod_chunk_key),
                    !.world = IF had
                              THEN [@ EXCEPT
                                      ![sp.entities[lod_chunk_key]].fade = FADE_OUT]
                              ELSE @,
                    !.replaced = @ \cup old_mesh]

\* One iteration of spawn_mesh_entities' loop.
spawn_mesh_entity(sp, lod_chunk_key, item) ==
    LET had == lod_chunk_key \in DOMAIN sp.entities
        old_mesh == IF had THEN {sp.entities[lod_chunk_key]} ELSE {}
    IN  IF item.some /\ item.indices = 0
        THEN sp
        ELSE IF item.some
        THEN LET entity == sp.next_entity
                 spawned ==
                     MapInsert(sp.world, entity,
                         ChunkMeshEntity(lod_chunk_key, entity, item.indices, FADE_IN))
             IN  [sp EXCEPT
                    !.next_entity = @ + 1,
                    !.mesh_assets = @ \cup {entity},
                    !.entities = MapInsert(@, lod_chunk_key, entity),
                    !.world = IF had
                              THEN [spawned EXCEPT
                                      ![sp.entities[lod_chunk_key]].fade = FADE_OUT]
                              ELSE spawned,
                    !.replaced = @ \cup old_mesh]
        ELSE [sp EXCEPT
                    !.entities = MapRemove(@, lod_chunk_key),
                    !.world = IF had
                              THEN [@ EXCEPT
                                      ![sp.entities[lod_chunk_key]].fade = FADE_OUT]
                              ELSE @,
                    !.replaced = @ \cup old_mesh]

\* spawn_mesh_entities: the loop over the task results, in task order.
RECURSIVE spawn_mesh_entities(_, _, _, _)
spawn_mesh_entities(sp, new_chunk_meshes, visible, hollow) ==
    IF new_chunk_meshes = <<>> THEN sp
    ELSE IF Len(new_chunk_meshes) = 1
    THEN spawn_mesh_entity(sp, new_chunk_meshes[1],
                           MeshBufFor(visible, hollow, new_chunk_meshes[1]))
    ELSE LET half == Len(new_chunk_meshes) \div 2
             first == spawn_mesh_entities(sp, SubSeq(new_chunk_meshes, 1, half),
                                          visible, hollow)
         IN  AfterValue(first,
                spawn_mesh_entities(first,
                    SubSeq(new_chunk_meshes, half + 1, Len(new_chunk_meshes)),
                    visible, hollow))

---------------------------------------------------------------------------
(* create_mesh_for_chunk, voxel by voxel, for the chunk at the origin *)

\* Voxel::EMPTY
EMPTY == 0

Cube(lo, hi) == { <<x, y, z>> : x \in lo..hi, y \in lo..hi, z \in lo..hi }

\* chunks.indexer.extent_for_chunk_at_key and the extent padded by one voxel
\* on every side.
extent_for_chunk_at_key == Cube(0, ChunkSide - 1)
padded_greedy_quads_chunk_extent == Cube(-1, ChunkSide)

\* Array3x1::fill(extent, value)
fill(extent, value) == [point \in extent |-> value]

\* copy_extent(extent, src, dst): dst takes the voxels of src inside extent.
copy_extent(extent, src, dst) ==
    [point \in DOMAIN dst |-> IF point \in extent THEN src[point] ELSE dst[point]]

FaceOffsets ==
    { <<1, 0, 0>>, <<-1, 0, 0>>, <<0, 1, 0>>, <<0, -1, 0>>, <<0, 0, 1>>, <<0, 0, -1>> }

\* greedy_quads(buffer, padded extent, ..): the quads cover the visible
\* faces, those of a non-empty voxel inside the padding towards an empty
\* voxel (every Voxel is opaque); there is a quad iff there is such a face.
greedy_quads(buffer, interior) ==
    { face \in interior \X FaceOffsets :
        /\ buffer[face[1]] # EMPTY
        /\ buffer[PointAdd(face[1], face[2])] = EMPTY }

\* A buffer filled from the whole padded extent, neighbours included.
fill_neighborhood_buffer_padded(chunks, buffer) ==
    copy_extent(padded_greedy_quads_chunk_extent, chunks, buffer)

\* A copy that writes the chunk's non-empty voxels only.
fill_neighborhood_buffer_skipping_empty(chunks, buffer) ==
    [point \in DOMAIN buffer |->
        IF point \in extent_for_chunk_at_key /\ chunks[point] # EMPTY
        THEN chunks[point] ELSE buffer[point]]

\* "Only copy the chunk_extent, leaving the padding empty".
fill_neighborhood_buffer(chunks, buffer) ==
    copy_extent(extent_for_chunk_at_key, chunks, buffer)

create_mesh_for_chunk(chunks, buffer) ==
    LET filled == fill_neighborhood_buffer(chunks, buffer)
        faces == greedy_quads(filled, extent_for_chunk_at_key)
    IN  [neighborhood_buffer |-> filled,
         result |-> [kind |-> IF faces = {} THEN "None" ELSE "Some",
                     num_faces |-> Cardinality(faces)]]

---------------------------------------------------------------------------
(* chunk_generator.rs *)

CHUNK_CREATIONS_PER_THREAD == 40

max_chunk_creations_per_frame(threads) == CHUNK_CREATIONS_PER_THREAD * threads

Generate(key) == [type |-> "Generate", key |-> key]

\* CHUNK_SHAPE and CHUNK_LOG2 as the configuration has them.
CHUNK_SHAPE(cfg) == 2 ^ cfg.chunk_log2

\* generate_chunk(key, ..): the key under which the generated chunk is
\* stored, as the debug_assert of the write-back loop states it.
generate_chunk(cfg, key) == PointMul(key, CHUNK_SHAPE(cfg))

\* generate_map: the chunk of height 0 of every column of the world.
generate_map(cfg) ==
    { PointMul(cfg_p, CHUNK_SHAPE(cfg)) :
        cfg_p \in SeqToSet(iter_points(cfg.world_chunks_minimum, cfg.world_chunks_shape)) }

\* A turn of the first loop without `if num_chunks_generated >=
\* num_chunks_to_generate { break; }`.
generate_turn_no_break(commands, i, st, num_chunks_to_generate) ==
    IF commands[i].type = "Generate"
    THEN [st EXCEPT !.num_chunks_generated = @ + 1,
                    !.tasks = Append(@, commands[i].key),
                    !.order = Append(@, i)]
    ELSE [st EXCEPT !.order = Append(@, i)]

\* One turn of the first loop of chunk_generator_system, on commands[i].
generate_turn(commands, i, st, num_chunks_to_generate) ==
    LET st1 == IF commands[i].type = "Generate"
               THEN [st EXCEPT !.num_chunks_generated = @ + 1,
                               !.tasks = Append(@, commands[i].key),
                               !.order = Append(@, i)]
               ELSE [st EXCEPT !.order = Append(@, i)]
    IN  [st1 EXCEPT !.broke = st1.num_chunks_generated >= num_chunks_to_generate]

\* The first loop, over commands.iter().rev(): the turns on commands[hi],
\* ..., commands[lo] in this order, none after a break.
RECURSIVE generate_loop(_, _, _, _, _)
generate_loop(commands, hi, lo, st, num_chunks_to_generate) ==
    IF st.broke \/ hi < lo THEN st
    ELSE IF hi = lo THEN generate_turn(commands, hi, st, num_chunks_to_generate)
    ELSE LET mid == (hi + lo) \div 2
         IN  generate_loop(commands, mid, lo,
                 generate_loop(commands, hi, mid + 1, st, num_chunks_to_generate),
                 num_chunks_to_generate)

\* bounding_extent of an extent (or none, <<>>) and the unit extent at key.
extend_extent(extent, key) ==
    IF extent = <<>> THEN <<key, key>>
    ELSE << <<Min(extent[1][1], key[1]), Min(extent[1][2], key[2]), Min(extent[1][3], key[3])>>,
            <<Max(extent[2][1], key[1]), Max(extent[2][2], key[2]), Max(extent[2][3], key[3])>> >>

\* A turn of the second loop that writes an Edit without counting it.
write_turn_uncounted_edit(cfg, commands, i, st, num_chunks_to_generate) ==
    LET st1 == IF commands[i].type = "Generate"
               THEN IF st.generated_chunks = <<>>
                    THEN [st EXCEPT !.panicked = TRUE]
                    ELSE [st EXCEPT
                            !.num_generates = @ + 1,
                            !.generated_chunks = Tail(@),
                            !.lod0 = @ \cup {Head(st.generated_chunks).chunk_key},
                            !.extent_to_update = extend_extent(@, commands[i].key),
                            !.received = Append(@, <<i, Head(st.generated_chunks).task>>),
                            !.order = Append(@, i)]
               ELSE IF commands[i].type = "Edit"
               THEN [st EXCEPT !.lod0 = @ \cup {commands[i].key},
                               !.order = Append(@, i)]
               ELSE [st EXCEPT !.num_removes = @ + 1,
                               !.order = Append(@, i)]
    IN  [st1 EXCEPT !.broke = st1.panicked \/ st1.num_generates >= num_chunks_to_generate]

\* One turn of the second loop, on commands[i]: generated_chunks.pop() after
\* the reverse takes the results in the order the tasks were spawned; an
\* Edit writes its chunk, a Remove is counted only.
write_turn(cfg, commands, i, st, num_chunks_to_generate) ==
    LET st1 == IF commands[i].type = "Generate"
               THEN IF st.generated_chunks = <<>>
                    THEN [st EXCEPT !.panicked = TRUE]
                    ELSE [st EXCEPT
                            !.num_generates = @ + 1,
                            !.generated_chunks = Tail(@),
                            !.lod0 = @ \cup {Head(st.generated_chunks).chunk_key},
                            !.extent_to_update = extend_extent(@, commands[i].key),
                            !.received = Append(@, <<i, Head(st.generated_chunks).task>>),
                            !.order = Append(@, i)]
               ELSE IF commands[i].type = "Edit"
               THEN [st EXCEPT !.num_edits = @ + 1,
                               !.lod0 = @ \cup {commands[i].key},
                               !.order = Append(@, i)]
               ELSE [st EXCEPT !.num_removes = @ + 1,
                               !.order = Append(@, i)]
    IN  [st1 EXCEPT !.broke = st1.panicked \/ st1.num_generates >= num_chunks_to_generate]

RECURSIVE write_loop(_, _, _, _, _, _)
write_loop(cfg, commands, hi, lo, st, num_chunks_to_generate) ==
    IF st.broke \/ hi < lo THEN st
    ELSE IF hi = lo THEN write_turn(cfg, commands, hi, st, num_chunks_to_generate)
    ELSE LET mid == (hi + lo) \div 2
         IN  write_loop(cfg, commands, mid, lo,
                 write_loop(cfg, commands, hi, mid + 1, st, num_chunks_to_generate),
                 num_chunks_to_generate)

\* chunk_generator_system on a queue, a level 0 and a pool.
chunk_generator(cfg, commands, lod0, threads) ==
    LET num_chunks_to_generate ==
            Min(Len(commands), max_chunk_creations_per_frame(threads))
        g == generate_loop(commands, Len(commands), 1,
                 [num_chunks_generated |-> 0, tasks |-> <<>>, order |-> <<>>,
                  broke |-> FALSE],
                 num_chunks_to_generate)
        w == write_loop(cfg, commands, Len(commands), 1,
                 [num_generates |-> 0, num_edits |-> 0, num_removes |-> 0,
                  generated_chunks |->
                      [j \in 1..Len(g.tasks) |->
                          [task |-> j, chunk_key |-> generate_chunk(cfg, g.tasks[j])]],
                  lod0 |-> lod0, extent_to_update |-> <<>>, panicked |-> FALSE,
                  received |-> <<>>, order |-> <<>>,
                  broke |-> FALSE],
                 num_chunks_to_generate)
        new_length == Len(commands) - (w.num_generates + w.num_edits + w.num_removes)
    IN  [commands |-> SubSeq(commands, 1, new_length),
         lod0 |-> w.lod0,
         tasks |-> g.tasks, order |-> g.order,
         num_generates |-> w.num_generates,
         received |-> w.received, written |-> w.order,
         unclaimed |-> Len(w.generated_chunks),
         extent_to_update |-> w.extent_to_update,
         panicked |-> w.panicked,
         num_chunks_to_generate |-> num_chunks_to_generate]

\* chunk_detection_system: a Generate for every chunk of the visible extent
\* (the world's extent moved to the camera's chunk) that level 0 lacks.
chunk_detection(cfg, camera_position, lod0, commands) ==
    IF camera_position = NoCamera THEN commands
    ELSE LET c == PointShr(in_voxel(camera_position), cfg.chunk_log2)
             camera_center == <<c[1], 0, c[3]>>
             visible_extent ==
                 iter_points(PointAdd(cfg.world_chunks_minimum, camera_center),
                             cfg.world_chunks_shape)
             keys == [i \in 1..Len(visible_extent) |->
                         PointMul(visible_extent[i], CHUNK_SHAPE(cfg))]
             missing == SelectSeq(keys, LAMBDA key : key \notin lod0)
         IN  [i \in 1..(Len(missing) + Len(commands)) |->
                 IF i <= Len(missing)
                 THEN Generate(missing[Len(missing) + 1 - i])
                 ELSE commands[i - Len(missing)]]

---------------------------------------------------------------------------
(* The configurations and inputs of the runs *)

DEFAULT_CHUNK_LOG2 == 5
DEFAULT_NUM_LODS == 6
DEFAULT_CLIP_BOX_RADIUS == 8

\* Places of the camera: the spawn point shifted along x by the multiples
\* -range .. range of step chunks.
CameraPositions(step, range) ==
    { <<SPAWN_POINT[1] + i * step * 2 * (2 ^ DEFAULT_CHUNK_LOG2),
        SPAWN_POINT[2], SPAWN_POINT[3]>> : i \in -range..range }

\* Every key of the octree of a configuration.
AllKeys(cfg) ==
    LET lo == CHUNKS_MINIMUM_XZ
        hi == CHUNKS_MINIMUM_XZ + CHUNKS_SHAPE - 1
    IN  UNION { { LodChunkKey(lod, <<x, 0, z>>) :
                    x \in Shr(lo, lod)..Shr(hi, lod), z \in Shr(lo, lod)..Shr(hi, lod) } :
                lod \in 0..(cfg.num_lods - 1) }

\* The terrains tried: every chunk has a visible face, or all but the lod-0
\* chunk under the spawn point.
Terrains(cfg) ==
    LET c == PointShr(in_voxel(SPAWN_POINT), cfg.chunk_log2)
    IN  { AllKeys(cfg), AllKeys(cfg) \ {LodChunkKey(0, <<c[1], 0, c[3]>>)} }

---------------------------------------------------------------------------
(* Start: the state on entering AppState::Preparing, after setup_world *)

NoNote == [kind |-> "none"]

\* No key is pressed, and every mesh buffer has indices.
NoInput ==
    /\ keyboard_input = {}
    /\ keys_left = 0
    /\ empty_meshes = {}

\* No meshing task is followed voxel by voxel.
NoMeshTask ==
    /\ voxels = <<>>
    /\ neighborhood_buffer = <<>>
    /\ mesh_result = "idle"
    /\ buffer_extent = [created |-> FALSE, minimum |-> <<0, 0, 0>>,
                        shape |-> <<0, 0, 0>>]

\* VoxelMap::new: one Create per active chunk around lod0_center.
Creates(lod_keys) == [i \in 1..Len(lod_keys) |-> Create(lod_keys[i])]

VoxelMap_new(cfg, commands, lod0_center) ==
    enqueue_all(commands, Creates(active_clipmap_lod_chunks(cfg, lod0_center)))

\* setup_world's center: SPAWN_POINT.in_voxel() >> chunk_log2.
init_lod0_center(cfg) == PointShr(in_voxel(SPAWN_POINT), cfg.chunk_log2)

StartWith(cfgs, threads, cameras, moves) ==
    /\ places = cameras
    /\ pc = "level_of_detail"
    /\ app_state = "Preparing"
    /\ voxel_map_config \in cfgs
    /\ thread_num \in threads
    /\ camera \in {NoCamera} \cup cameras
    /\ moves_left = moves
    /\ time_delta = 0
    /\ lod_state = [old_lod0_center |-> init_lod0_center(voxel_map_config)]
    /\ mesh_commands = VoxelMap_new(voxel_map_config, <<>>, init_lod0_center(voxel_map_config))
    /\ chunk_meshes = [entities |-> EmptyMap, remove_queue |-> EmptyMap]
    /\ world = EmptyMap
    /\ next_entity = 1
    /\ mesh_assets = {}
    /\ meshable \in Terrains(voxel_map_config)
    /\ lod_note = NoNote
    /\ clipmap_call = [query |-> "active", centers |-> {init_lod0_center(voxel_map_config)}]
    /\ mesh_note = NoNote
    /\ despawn_note = {}
    /\ chunk_commands = <<>>
    /\ lod0_chunks = generate_map(voxel_map_config)
    /\ voxel_map_index = generate_map(voxel_map_config)
    /\ chunk_note = NoNote
    /\ NoMeshTask

InitWith(cfgs, threads, cameras, moves) ==
    StartWith(cfgs, threads, cameras, moves) /\ NoInput

Init ==
    InitWith({VoxelMapConfig_new(DEFAULT_CHUNK_LOG2, 3, 1)}, {1},
             CameraPositions(1, CameraRange), MaxMoves)

---------------------------------------------------------------------------
(* The systems *)

\* The camera's lod-0 chunk as level_of_detail_system computes it.
camera_lod0_center(cfg, camera_position) ==
    PointShr(in_voxel(<<camera_position[1], 0, camera_position[3]>>), cfg.chunk_log2)

\* level_of_detail_system without its `if lod0_center == old_lod0_center`
\* early return.
level_of_detail_no_early_out(cfg, camera_position, old_lod0_center, commands, call) ==
    IF camera_position = NoCamera
    THEN [commands |-> commands, old_lod0_center |-> old_lod0_center,
          note |-> [kind |-> "no_camera"], call |-> call]
    ELSE LET lod0_center == camera_lod0_center(cfg, camera_position)
         IN  [commands |->
                  enqueue_all(commands,
                      find_clipmap_chunk_updates(cfg, old_lod0_center, lod0_center)),
              old_lod0_center |-> lod0_center,
              note |-> [kind |-> "updated"],
              call |-> [query |-> "updates",
                        centers |-> {old_lod0_center, lod0_center}]]

\* level_of_detail_system without `lod_state.old_lod0_center = lod0_center`.
level_of_detail_keeps_old_center(cfg, camera_position, old_lod0_center, commands, call) ==
    IF camera_position = NoCamera
    THEN [commands |-> commands, old_lod0_center |-> old_lod0_center,
          note |-> [kind |-> "no_camera"], call |-> call]
    ELSE LET lod0_center == camera_lod0_center(cfg, camera_position)
         IN  IF lod0_center = old_lod0_center
             THEN [commands |-> commands, old_lod0_center |-> old_lod0_center,
                   note |-> [kind |-> "unchanged"], call |-> call]
             ELSE [commands |->
                       enqueue_all(commands,
                           find_clipmap_chunk_updates(cfg, old_lod0_center, lod0_center)),
                   old_lod0_center |-> old_lod0_center,
                   note |-> [kind |-> "updated"],
                   call |-> [query |-> "updates",
                             centers |-> {old_lod0_center, lod0_center}]]

\* level_of_detail_system: the new [commands, old_lod0_center, note, call].
level_of_detail(cfg, camera_position, old_lod0_center, commands, call) ==
    IF camera_position = NoCamera
    THEN [commands |-> commands, old_lod0_center |-> old_lod0_center,
          note |-> [kind |-> "no_camera"], call |-> call]
    ELSE LET lod0_center == camera_lod0_center(cfg, camera_position)
         IN  IF lod0_center = old_lod0_center
             THEN [commands |-> commands, old_lod0_center |-> old_lod0_center,
                   note |-> [kind |-> "unchanged"], call |-> call]
             ELSE [commands |->
                       enqueue_all(commands,
                           find_clipmap_chunk_updates(cfg, old_lod0_center, lod0_center)),
                   old_lod0_center |-> lod0_center,
                   note |-> [kind |-> "updated"],
                   call |-> [query |-> "updates",
                             centers |-> {old_lod0_center, lod0_center}]]

level_of_detail_system ==
    /\ pc = "level_of_detail"
    /\ LET r == level_of_detail(voxel_map_config, camera, lod_state.old_lod0_center,
                                mesh_commands, clipmap_call)
       IN  /\ mesh_commands' = r.commands
           /\ lod_state' = [old_lod0_center |-> r.old_lod0_center]
           /\ lod_note' = r.note
           /\ clipmap_call' = r.call
    /\ pc' = "mesh_generator"
    /\ UNCHANGED <<app_state, voxel_map_config, thread_num, camera, moves_left, places,
                   time_delta, chunk_meshes, world, next_entity, mesh_assets,
                   meshable, mesh_note, despawn_note>>
    /\ UNCHANGED <<chunk_vars, voxel_vars>>
    /\ UNCHANGED input_vars

\* state.set(AppState::Running).unwrap(): an Err when Running is already
\* the state.
state_set_running(state) == IF state = "Running" THEN "Panicked" ELSE "Running"

mesh_generator_system ==
    /\ pc = "mesh_generator"
    /\ LET first_run == DOMAIN chunk_meshes.entities = {}
           st == apply_mesh_commands(mesh_commands, chunk_meshes, world,
                                     thread_num, first_run)
           sp == spawn_mesh_entities(
                    [entities |-> st.entities, world |-> st.world,
                     next_entity |-> next_entity, mesh_assets |-> mesh_assets,
                     replaced |-> {}],
                    st.tasks, meshable, empty_meshes)
       IN  /\ mesh_commands' = st.commands
           /\ chunk_meshes' = [entities |-> sp.entities, remove_queue |-> st.remove_queue]
           /\ world' = sp.world
           /\ next_entity' = sp.next_entity
           /\ mesh_assets' = sp.mesh_assets
           /\ mesh_note' = [kind |-> "ran", first_run |-> first_run,
                            len |-> Len(mesh_commands),
                            num_chunks_to_mesh |-> st.num_chunks_to_mesh,
                            tasks |-> st.tasks, order |-> st.order,
                            removed |-> st.num_creates + st.num_updates,
                            retired |-> st.retired, replaced |-> sp.replaced]
           /\ app_state' = IF first_run THEN state_set_running(app_state) ELSE app_state
           /\ pc' = IF app_state' = "Panicked" THEN "crashed" ELSE "frame"
           /\ buffer_extent' =
                 IF st.tasks = <<>> THEN buffer_extent
                 ELSE local_neighborhood_buffer(
                          local_neighborhood_buffer(buffer_extent,
                              padded_chunk_extent(voxel_map_config, st.tasks[1])),
                          padded_chunk_extent(voxel_map_config,
                                              st.tasks[Len(st.tasks)]))
    /\ UNCHANGED <<voxel_map_config, thread_num, camera, moves_left, places, time_delta,
                   lod_state, meshable, lod_note, clipmap_call, despawn_note>>
    /\ UNCHANGED <<chunk_vars, voxels, neighborhood_buffer, mesh_result>>
    /\ UNCHANGED input_vars

\* The start of a frame of AppState::Running: the frame time and the
\* camera's place are read from the engine.
frame ==
    /\ pc = "frame"
    /\ time_delta' \in 1..MaxDt
    /\ \/ UNCHANGED <<camera, moves_left>>
       \/ /\ moves_left > 0
          /\ camera' \in places \ {camera}
          /\ moves_left' = moves_left - 1
    /\ pc' = "mesh_fade_update"
    /\ UNCHANGED <<app_state, voxel_map_config, thread_num, places, lod_state, mesh_commands,
                   chunk_meshes, world, next_entity, mesh_assets, meshable,
                   lod_note, clipmap_call, mesh_note, despawn_note>>
    /\ UNCHANGED <<chunk_vars, voxel_vars>>
    /\ UNCHANGED input_vars

mesh_fade_update_system ==
    /\ pc = "mesh_fade_update"
    /\ world' = [e \in DOMAIN world |->
                    [world[e] EXCEPT !.fade = fade_update(world[e].fade, time_delta)]]
    /\ pc' = "mesh_despawn"
    /\ UNCHANGED <<app_state, voxel_map_config, thread_num, camera, moves_left, places,
                   time_delta, lod_state, mesh_commands, chunk_meshes, next_entity,
                   mesh_assets, meshable, lod_note, clipmap_call, mesh_note,
                   despawn_note>>
    /\ UNCHANGED <<chunk_vars, voxel_vars>>
    /\ UNCHANGED input_vars

\* mesh_despawn_system: the keys whose remove_queue entry is taken out,
\* one for every queried entity that has faded out.
despawn_keys(meshes, entities_world) ==
    { k \in DOMAIN meshes.remove_queue :
        \E e \in DOMAIN entities_world :
            /\ entities_world[e].lod_chunk_key = k
            /\ ~entities_world[e].fade.fade_in
            /\ entities_world[e].fade.remaining = 0 }

mesh_despawn_system ==
    /\ pc = "mesh_despawn"
    /\ LET keys == despawn_keys(chunk_meshes, world)
           gone == { chunk_meshes.remove_queue[k] : k \in keys }
       IN  /\ chunk_meshes' =
                 [chunk_meshes EXCEPT
                    !.remove_queue = [k \in DOMAIN @ \ keys |-> @[k]]]
           /\ world' = [e \in DOMAIN world \ gone |-> world[e]]
           /\ mesh_assets' = mesh_assets \ { world[e].mesh : e \in gone }
           /\ despawn_note' = { [entity |-> e, fade |-> world[e].fade] : e \in gone }
    /\ pc' = "chunk_detection"
    /\ UNCHANGED <<app_state, voxel_map_config, thread_num, camera, moves_left, places,
                   time_delta, lod_state, mesh_commands, next_entity, meshable,
                   lod_note, clipmap_call, mesh_note>>
    /\ UNCHANGED <<chunk_vars, voxel_vars>>
    /\ UNCHANGED input_vars

chunk_detection_system ==
    /\ pc = "chunk_detection"
    /\ chunk_commands' =
            chunk_detection(voxel_map_config, camera, lod0_chunks, chunk_commands)
    /\ Len(chunk_commands') <= MaxPending
    /\ pc' = "chunk_generator"
    /\ UNCHANGED <<camera, render_vars, lod0_chunks, chunk_note, voxel_map_index, voxel_vars>>
    /\ UNCHANGED input_vars

chunk_generator_system ==
    /\ pc = "chunk_generator"
    /\ LET r == chunk_generator(voxel_map_config, chunk_commands, lod0_chunks, thread_num)
       IN  /\ chunk_commands' = r.commands
           /\ lod0_chunks' = r.lod0
           /\ voxel_map_index' = voxel_map_index
           /\ chunk_note' = [kind |-> "ran", len |-> Len(chunk_commands),
                             num_chunks_to_generate |-> r.num_chunks_to_generate,
                             tasks |-> r.tasks, order |-> r.order,
                             num_generates |-> r.num_generates,
                             received |-> r.received, written |-> r.written,
                             unclaimed |-> r.unclaimed,
                             extent_to_update |-> r.extent_to_update,
                             left |-> Len(r.commands)]
           /\ pc' = IF r.panicked THEN "crashed" ELSE "level_of_detail"
    /\ UNCHANGED <<camera, render_vars, voxel_vars>>
    /\ UNCHANGED input_vars

\* One frame of AppState::Running runs the systems in the order frame,
\* mesh_fade_update, mesh_despawn, chunk_detection, chunk_generator,
\* level_of_detail, mesh_generator, which the labels of VoxelMapPlugin allow;
\* on_enter(Preparing) runs level_of_detail and mesh_generator alone.
Next ==
    \/ level_of_detail_system
    \/ mesh_generator_system
    \/ frame
    \/ mesh_fade_update_system
    \/ mesh_despawn_system
    \/ chunk_detection_system
    \/ chunk_generator_system

Spec == Init /\ [][Next]_vars

\* A world of a single level of detail, in which every chunk is active, a
\* pool of 1 .. MaxThreads threads, and a camera that jumps FarShift chunks.
InitFar ==
    InitWith({VoxelMapConfig_new(DEFAULT_CHUNK_LOG2, 1, 1)}, 1..MaxThreads,
             CameraPositions(FarShift, 1), MaxMoves)

SpecFar == InitFar /\ [][Next]_vars

\* The startup of Init, followed for two more moves of the camera.
InitLifecycle ==
    InitWith({VoxelMapConfig_new(DEFAULT_CHUNK_LOG2, 3, 1)}, {1},
             CameraPositions(1, CameraRange), MaxMoves + 2)

SpecLifecycle == InitLifecycle /\ [][Next]_vars

\* The engine starts the next frame whenever one has ended.
SpecLifecycleFair == SpecLifecycle /\ WF_vars(frame)

\* A running world that has converged on the camera's place: the queue is
\* empty, LodState holds the camera's chunk and ChunkMeshes.entities holds
\* one faded-in entity for every active chunk that has a mesh.  The camera
\* moves once, to any other place: one stream of updates is enqueued, and
\* nothing is enqueued behind it while it is being worked off.
ConvergedWorld ==
    /\ pc = "frame"
    /\ app_state = "Running"
    /\ voxel_map_config = VoxelMapConfig_new(DEFAULT_CHUNK_LOG2, 3, 1)
    /\ thread_num = 1
    /\ places = CameraPositions(1, CameraRange)
    /\ camera \in places
    /\ time_delta = 0
    /\ lod_state = [old_lod0_center |-> camera_lod0_center(voxel_map_config, camera)]
    /\ meshable \in Terrains(voxel_map_config)
    /\ LET active == active_clipmap_lod_chunks(voxel_map_config,
                                               lod_state.old_lod0_center)
           keys == SelectSeq(active, LAMBDA key : key \in meshable)
       IN  /\ chunk_meshes =
                 [entities |-> [key \in SeqToSet(keys) |->
                                   CHOOSE i \in 1..Len(keys) : keys[i] = key],
                  remove_queue |-> EmptyMap]
           /\ world = [i \in 1..Len(keys) |->
                          ChunkMeshEntity(keys[i], i, 6 * 6,
                                          [FADE_IN EXCEPT !.remaining = 0])]
           /\ next_entity = Len(keys) + 1
           /\ mesh_assets = 1..Len(keys)
           /\ buffer_extent = padded_chunk_extent(voxel_map_config, keys[Len(keys)])
    /\ lod_note = NoNote
    /\ clipmap_call = [query |-> "active", centers |-> {lod_state.old_lod0_center}]
    /\ mesh_note = NoNote
    /\ despawn_note = {}
    /\ lod0_chunks = generate_map(voxel_map_config)
    /\ voxel_map_index = generate_map(voxel_map_config)
    /\ chunk_note = NoNote
    /\ voxels = <<>>
    /\ neighborhood_buffer = <<>>
    /\ mesh_result = "idle"

InitConverged ==
    /\ ConvergedWorld
    /\ moves_left = 1
    /\ mesh_commands = <<>>
    /\ chunk_commands = <<>>
    /\ NoInput

SpecConverged == InitConverged /\ [][Next]_vars

\* The converged world with the camera staying at the spawn point and a
\* queue of up to MaxQueueLen commands, front first: any of the updates
\* from the camera's chunk to its neighbour, a Create for the chunk either
\* update names, and a Create for the camera's own chunk.  The mesh buffer
\* of a merged chunk may come back with an empty index list.
InitQueue ==
    /\ ConvergedWorld
    /\ camera = SPAWN_POINT
    /\ moves_left = 0
    /\ chunk_commands = <<>>
    /\ LET center == lod_state.old_lod0_center
           beside == <<center[1] - 1, center[2], center[3]>>
           updates ==
               SeqToSet(find_clipmap_chunk_updates(voxel_map_config, center, beside))
           alphabet == updates \cup { Create(u.chunk) : u \in updates }
                       \cup {Create(LodChunkKey(0, center))}
       IN  /\ mesh_commands \in UNION { [1..n -> alphabet] : n \in 0..MaxQueueLen }
           /\ empty_meshes \in SUBSET { u.chunk : u \in { v \in updates : v.type = "Merge" } }
    /\ keyboard_input = {}
    /\ keys_left = 0

SpecQueue == InitQueue /\ [][Next]_vars

\* The engine starts the next frame whenever one has ended.
SpecQueueFair == SpecQueue /\ WF_vars(frame)

\* The converged world with the camera staying at the spawn point and a
\* ChunkCommandQueue of up to MaxMixedLen commands of any kind, then either
\* nothing or one Generate short of a one-thread budget, then up to
\* MaxMixedLen commands of any kind again.  The keys are of chunks beyond
\* the world's edge.
InitMixed ==
    /\ ConvergedWorld
    /\ camera = SPAWN_POINT
    /\ moves_left = 0
    /\ mesh_commands = <<>>
    /\ NoInput
    /\ LET beyond(j) == PointMul(<<ModelChunksShape + j, 0, 0>>,
                                 CHUNK_SHAPE(voxel_map_config))
           alphabet == {Generate(beyond(0)), [type |-> "Edit", key |-> beyond(0)],
                        [type |-> "Remove", key |-> beyond(0)]}
           mixed == UNION { [1..n -> alphabet] : n \in 0..MaxMixedLen }
           many == [j \in 1..(max_chunk_creations_per_frame(thread_num) - 1) |->
                       Generate(beyond(j))]
       IN  chunk_commands \in { front \o middle \o back :
                                   front \in mixed, middle \in {<<>>, many},
                                   back \in mixed }

SpecMixed == InitMixed /\ [][Next]_vars

\* The pipelines at rest: what the runs of a single system leave alone.
QuietPipelineBut ==
    /\ app_state = "Running"
    /\ thread_num = 1
    /\ places = {}
    /\ camera = NoCamera
    /\ moves_left = 0
    /\ lod_state = [old_lod0_center |-> <<0, 0, 0>>]
    /\ mesh_commands = <<>>
    /\ chunk_meshes = [entities |-> EmptyMap, remove_queue |-> EmptyMap]
    /\ next_entity = 1
    /\ mesh_assets = {}
    /\ meshable = {}
    /\ lod_note = NoNote
    /\ clipmap_call = [query |-> "active", centers |-> {}]
    /\ mesh_note = NoNote
    /\ despawn_note = {}
    /\ chunk_commands = <<>>
    /\ lod0_chunks = {}
    /\ voxel_map_index = {}
    /\ chunk_note = NoNote

\* The same with the smallest configuration, and no key pressed.
QuietPipeline ==
    /\ QuietPipelineBut
    /\ voxel_map_config = VoxelMapConfig_new(DEFAULT_CHUNK_LOG2, 1, 1)
    /\ NoInput

\* One entity with any FadeUniform of 0 <= remaining <= duration, and
\* mesh_fade_update_system run on it frame after frame, with any frame time.
FadeUniforms ==
    { [duration |-> duration, remaining |-> remaining, delay |-> delay,
       fade_in |-> fade_in] :
        duration \in 1..MaxDuration, remaining \in 0..MaxDuration,
        delay \in 0..MaxDelay, fade_in \in BOOLEAN }

InitFade ==
    /\ QuietPipeline
    /\ NoMeshTask
    /\ pc = "mesh_fade_update"
    /\ time_delta \in 0..MaxFadeDt
    /\ \E fade \in FadeUniforms :
        /\ fade.remaining <= fade.duration
        /\ world = (1 :> ChunkMeshEntity(LodChunkKey(0, <<0, 0, 0>>), 1, 6 * 6, fade))

\* The next frame of a run of mesh_fade_update_system alone.
fade_frame ==
    /\ pc = "mesh_despawn"
    /\ time_delta' \in 0..MaxFadeDt
    /\ pc' = "mesh_fade_update"
    /\ UNCHANGED <<camera, app_state, voxel_map_config, thread_num, moves_left, places,
                   lod_state, mesh_commands, chunk_meshes, world, next_entity,
                   mesh_assets, meshable, lod_note, clipmap_call, mesh_note,
                   despawn_note, chunk_vars, voxel_vars>>
    /\ UNCHANGED input_vars

NextFade == mesh_fade_update_system \/ fade_frame

SpecFade == InitFade /\ [][NextFade]_vars

\* One call of create_mesh_for_chunk with a fresh thread-local buffer, on a
\* chunk that is of one material but for at most one voxel, amid
\* neighbours of one material (or empty).
VoxelWorlds ==
    { [point \in Cube(-ChunkSide, 2 * ChunkSide - 1) |->
          IF point \in extent_for_chunk_at_key
          THEN (IF point = odd THEN other ELSE material)
          ELSE around] :
        material \in 0..MaxMaterial, other \in 0..MaxMaterial,
        around \in 0..MaxMaterial, odd \in extent_for_chunk_at_key }

InitMeshing ==
    /\ QuietPipeline
    /\ pc = "mesh_task"
    /\ time_delta = 0
    /\ world = EmptyMap
    /\ voxels \in VoxelWorlds
    /\ neighborhood_buffer = fill(padded_greedy_quads_chunk_extent, EMPTY)
    /\ mesh_result = [kind |-> "pending", num_faces |-> 0]
    /\ buffer_extent = [created |-> TRUE, minimum |-> <<-1, -1, -1>>,
                        shape |-> <<ChunkSide + 2, ChunkSide + 2, ChunkSide + 2>>]

create_mesh_for_chunk_task ==
    /\ pc = "mesh_task"
    /\ LET r == create_mesh_for_chunk(voxels, neighborhood_buffer)
       IN  /\ neighborhood_buffer' = r.neighborhood_buffer
           /\ mesh_result' =
                 [kind |-> r.result.kind, num_faces |-> r.result.num_faces,
                  reused |-> \E point \in extent_for_chunk_at_key :
                                neighborhood_buffer[point] # EMPTY]
    /\ pc' = "mesh_task_done"
    /\ UNCHANGED <<camera, render_vars, chunk_vars, voxels, buffer_extent>>
    /\ UNCHANGED input_vars

NextMeshing == create_mesh_for_chunk_task

SpecMeshing == InitMeshing /\ [][NextMeshing]_vars

\* The thread's next task: another chunk of the same shape, of one material
\* or absent, is meshed with the buffer the last task left.  Points are
\* counted from the minimum of the chunk being meshed, as set_minimum makes
\* the buffer's points be.
next_mesh_task ==
    /\ pc = "mesh_task_done"
    /\ voxels' \in { [point \in Cube(-ChunkSide, 2 * ChunkSide - 1) |->
                         IF point \in extent_for_chunk_at_key THEN material ELSE around] :
                        material \in 0..MaxMaterial, around \in 0..MaxMaterial }
    /\ mesh_result' = [kind |-> "pending", num_faces |-> 0]
    /\ pc' = "mesh_task"
    /\ UNCHANGED <<camera, render_vars, chunk_vars, neighborhood_buffer, buffer_extent,
                   input_vars>>

NextReuse == create_mesh_for_chunk_task \/ next_mesh_task

SpecReuse == InitMeshing /\ [][NextReuse]_vars

voxel_map_config_update_system ==
    /\ pc = "voxel_map_config_update"
    /\ voxel_map_config' = voxel_map_config_update(voxel_map_config, keyboard_input)
    /\ pc' = "voxel_map_config_changed"
    /\ UNCHANGED <<app_state, thread_num, camera, moves_left, places, time_delta,
                   lod_state, mesh_commands, chunk_meshes, world, next_entity,
                   mesh_assets, meshable, lod_note, clipmap_call, mesh_note,
                   despawn_note, chunk_vars, voxel_vars, input_vars>>

\* The next frame of a run of voxel_map_config_update_system alone: any of
\* the three keys may have just been pressed.
config_frame ==
    /\ pc = "voxel_map_config_changed"
    /\ keyboard_input' \in SUBSET Keys
    /\ pc' = "voxel_map_config_update"
    /\ UNCHANGED <<camera, render_vars, chunk_vars, voxel_vars, keys_left, empty_meshes>>

\* The default configuration, and keys pressed frame after frame.
InitConfig ==
    /\ QuietPipelineBut
    /\ voxel_map_config = VoxelMapConfig_new(DEFAULT_CHUNK_LOG2, DEFAULT_NUM_LODS,
                                             DEFAULT_CLIP_BOX_RADIUS)
    /\ NoMeshTask
    /\ pc = "voxel_map_config_update"
    /\ time_delta = 0
    /\ world = EmptyMap
    /\ keyboard_input \in SUBSET Keys
    /\ keys_left = 0
    /\ empty_meshes = {}

NextConfig == voxel_map_config_update_system \/ config_frame

SpecConfig == InitConfig /\ [][NextConfig]_vars

\* setup_world, on leaving AppState::Loading: the map is generated from
\* the configuration and the resources of the pipeline are inserted.
setup_world ==
    /\ pc = "setup_world"
    /\ LET init == init_lod0_center(voxel_map_config)
       IN  /\ mesh_commands' = VoxelMap_new(voxel_map_config, mesh_commands, init)
           /\ lod0_chunks' = generate_map(voxel_map_config)
           /\ voxel_map_index' = generate_map(voxel_map_config)
           /\ clipmap_call' = [query |-> "active", centers |-> {init}]
           /\ lod_state' = [old_lod0_center |-> init]
    /\ chunk_meshes' = [entities |-> EmptyMap, remove_queue |-> EmptyMap]
    /\ app_state' = "Preparing"
    /\ pc' = "level_of_detail"
    /\ UNCHANGED <<voxel_map_config, thread_num, camera, moves_left, places, time_delta,
                   world, next_entity, mesh_assets, meshable, lod_note, mesh_note,
                   despawn_note, chunk_commands, chunk_note, voxel_vars, input_vars>>

\* The application about to leave AppState::Loading, with a configuration
\* made by VoxelMapConfig::new from any arguments.
InitConstruct ==
    /\ pc = "setup_world"
    /\ app_state = "Loading"
    /\ \E chunk_log2 \in 1..MAX_CHUNK_LOG2, num_lods \in 1..MaxLodsTried,
          radius_log2 \in 0..MaxRadiusLog2 :
            voxel_map_config = VoxelMapConfig_new(chunk_log2, num_lods, 2 ^ radius_log2)
    /\ thread_num = 1
    /\ places = {}
    /\ camera = NoCamera
    /\ moves_left = 0
    /\ time_delta = 0
    /\ lod_state = [old_lod0_center |-> <<0, 0, 0>>]
    /\ mesh_commands = <<>>
    /\ chunk_meshes = [entities |-> EmptyMap, remove_queue |-> EmptyMap]
    /\ world = EmptyMap
    /\ next_entity = 1
    /\ mesh_assets = {}
    /\ meshable = AllKeys(voxel_map_config)
    /\ lod_note = NoNote
    /\ clipmap_call = [query |-> "active", centers |-> {}]
    /\ mesh_note = NoNote
    /\ despawn_note = {}
    /\ chunk_commands = <<>>
    /\ lod0_chunks = {}
    /\ voxel_map_index = {}
    /\ chunk_note = NoNote
    /\ NoMeshTask
    /\ NoInput

NextConstruct == setup_world

SpecConstruct == InitConstruct /\ [][NextConstruct]_vars

\* ChunkMeshes::clear_entities: every entity of either map is despawned
\* and its mesh removed from the assets.
clear_entities(meshes, entities_world, assets) ==
    LET gone == { meshes.entities[k] : k \in DOMAIN meshes.entities }
                \cup { meshes.remove_queue[k] : k \in DOMAIN meshes.remove_queue }
    IN  [chunk_meshes |-> [entities |-> EmptyMap, remove_queue |-> EmptyMap],
         world |-> [e \in DOMAIN entities_world \ gone |-> entities_world[e]],
         mesh_assets |-> assets \ { entities_world[e].mesh :
                                      e \in gone \cap DOMAIN entities_world }]

\* voxel_map_config_changed_system.  The configuration is changed when
\* voxel_map_config_update_system has written to it in this frame, that is
\* when one of its keys was pressed.
voxel_map_config_changed_system ==
    /\ pc = "voxel_map_config_changed"
    /\ IF keyboard_input = {}
       THEN UNCHANGED <<chunk_meshes, world, mesh_assets, mesh_commands, lod0_chunks, voxel_map_index,
                        lod_state, clipmap_call>>
       ELSE LET cleared == clear_entities(chunk_meshes, world, mesh_assets)
            IN  /\ chunk_meshes' = cleared.chunk_meshes
                /\ world' = cleared.world
                /\ mesh_assets' = cleared.mesh_assets
                /\ IF camera = NoCamera
                   THEN /\ mesh_commands' = <<>>
                        /\ UNCHANGED <<lod0_chunks, voxel_map_index, lod_state, clipmap_call>>
                   ELSE LET lod0_center ==
                                PointShr(in_voxel(camera), voxel_map_config.chunk_log2)
                        IN  /\ mesh_commands' =
                                  VoxelMap_new(voxel_map_config, <<>>, lod0_center)
                            /\ lod0_chunks' = generate_map(voxel_map_config)
                            /\ voxel_map_index' = generate_map(voxel_map_config)
                            /\ clipmap_call' = [query |-> "active",
                                                centers |-> {lod0_center}]
                            /\ lod_state' = [old_lod0_center |-> lod0_center]
    /\ pc' = "mesh_fade_update"
    /\ UNCHANGED <<app_state, voxel_map_config, thread_num, camera, moves_left, places,
                   time_delta, next_entity, meshable, lod_note, mesh_note,
                   despawn_note, chunk_commands, chunk_note, voxel_vars, input_vars>>

\* The start of a frame in which keys may have just been pressed.
frame_keys ==
    /\ pc = "frame"
    /\ time_delta' \in 1..MaxDt
    /\ keyboard_input' \in (IF keys_left > 0 THEN SUBSET Keys ELSE {{}})
    /\ keys_left' = IF keyboard_input' = {} THEN keys_left ELSE keys_left - 1
    /\ pc' = "voxel_map_config_update"
    /\ UNCHANGED <<app_state, voxel_map_config, thread_num, camera, moves_left, places,
                   lod_state, mesh_commands, chunk_meshes, world, next_entity,
                   mesh_assets, meshable, lod_note, clipmap_call, mesh_note,
                   despawn_note, chunk_vars, voxel_vars, empty_meshes>>

\* The startup of Init with a camera that stays where it is, then frames in
\* which the configuration keys are pressed MaxKeyPresses times.
InitRebuild ==
    /\ StartWith({VoxelMapConfig_new(DEFAULT_CHUNK_LOG2, 3, 1)}, {1},
                 CameraPositions(1, CameraRange), 0)
    /\ keyboard_input = {}
    /\ keys_left = MaxKeyPresses
    /\ empty_meshes = {}

NextRebuild ==
    \/ frame_keys
    \/ voxel_map_config_update_system
    \/ voxel_map_config_changed_system
    \/ mesh_fade_update_system
    \/ mesh_despawn_system
    \/ chunk_detection_system
    \/ chunk_generator_system
    \/ level_of_detail_system
    \/ mesh_generator_system

SpecRebuild == InitRebuild /\ [][NextRebuild]_vars

---------------------------------------------------------------------------
(* Fading *)

\* C9: one run of mesh_fade_update_system, on every FadeUniform with
\* 0 <= remaining <= duration and for every frame time dt >= 0, leaves
\* remaining no greater than it was and within [0, duration]; if the run
\* ends with delay > 0, remaining is unchanged; if it uses up a delay,
\* remaining goes down by the part of dt beyond the delay only (not below 0).
C9_FadeMonotone ==
    [][ mesh_fade_update_system =>
          \A e \in DOMAIN world :
            LET before == world[e].fade
                after == world'[e].fade
            IN  /\ after.remaining <= before.remaining
                /\ 0 <= after.remaining /\ after.remaining <= after.duration
                /\ after.delay > 0 => after.remaining = before.remaining
                /\ (before.delay > 0 /\ after.delay = 0) =>
                       after.remaining =
                           Max(0, before.remaining - (time_delta - before.delay)) ]_vars

\* A frame of 3 ticks has left remaining at 2 of 3 ticks: at least 2 ticks
\* of delay were used up before remaining went down.
C9_Witness ==
    /\ pc = "mesh_despawn"
    /\ time_delta = 3
    /\ \E e \in DOMAIN world :
        /\ world[e].fade.duration = 3
        /\ world[e].fade.remaining = 2
        /\ world[e].fade.delay = 0

---------------------------------------------------------------------------
(* Meshing one chunk *)

\* The chunk is of one non-empty material, and so is all that surrounds it.
SolidChunk ==
    \A point \in extent_for_chunk_at_key :
        voxels[point] # EMPTY /\ voxels[point] = voxels[<<0, 0, 0>>]
SolidNeighbours ==
    \A point \in DOMAIN voxels \ extent_for_chunk_at_key : voxels[point] # EMPTY

\* C10 as stated: create_mesh_for_chunk on a chunk of one non-empty
\* material whose neighbours are solid finds no quad and returns None.
C10_SolidInteriorHasNoMesh ==
    (pc = "mesh_task_done" /\ SolidChunk /\ SolidNeighbours) =>
        mesh_result.kind = "None" /\ mesh_result.num_faces = 0

\* C10 amended: the neighbours have no part in it, for the padding of the
\* buffer stays EMPTY.  create_mesh_for_chunk returns None exactly when
\* the chunk has no non-empty voxel, and for a chunk of one non-empty
\* material it returns Some, all six sides of the chunk being visible.
C10_MeshUnlessEmpty ==
    pc = "mesh_task_done" =>
        /\ mesh_result.kind = "None" <=>
                \A point \in extent_for_chunk_at_key : voxels[point] = EMPTY
        /\ \A point \in padded_greedy_quads_chunk_extent \ extent_for_chunk_at_key :
                neighborhood_buffer[point] = EMPTY
        /\ SolidChunk =>
                /\ mesh_result.kind = "Some"
                /\ mesh_result.num_faces = 6 * ChunkSide * ChunkSide

\* A solid chunk amid solid neighbours has been meshed, and has a mesh.
C10_Witness ==
    /\ pc = "mesh_task_done"
    /\ SolidChunk /\ SolidNeighbours
    /\ mesh_result.kind = "Some"

---------------------------------------------------------------------------
(* Convergence *)

\* C1: from a converged world (empty queue, ChunkMeshes.entities = the
\* active chunks of old_center that have a mesh), once level_of_detail_system
\* has enqueued the updates towards the camera's chunk and
\* mesh_generator_system has emptied the queue, the keys of
\* ChunkMeshes.entities are the active chunks of the new center that have a
\* mesh.
C1_Convergence ==
    (pc = "frame" /\ mesh_commands = <<>>) =>
        DOMAIN chunk_meshes.entities =
            { key \in SeqToSet(active_clipmap_lod_chunks(voxel_map_config,
                                                         lod_state.old_lod0_center)) :
                key \in meshable }

\* The generator has just emptied a queue of updates: it retired chunks,
\* spawned others, and the controller had moved the center.
C1_Witness ==
    /\ pc = "frame"
    /\ mesh_commands = <<>>
    /\ lod_note.kind = "updated"
    /\ mesh_note.kind = "ran" /\ mesh_note.retired # {} /\ mesh_note.tasks # <<>>

---------------------------------------------------------------------------
(* Fade-out and despawn *)

\* C7 as stated: every entity mesh_despawn_system despawns has itself
\* fade_in = false and remaining = 0.
C7_DespawnOnlyFadedOut ==
    \A d \in despawn_note : ~d.fade.fade_in /\ d.fade.remaining = 0

\* C8 as stated, for a camera that moves finitely often: if frames keep
\* running (each with a positive time step), a time comes after which every
\* entity that was marked FADE_OUT has been despawned, so that no live
\* entity is marked FADE_OUT any more.
C8_FadedOutIsDespawned ==
    ([]<><<frame>>_vars) => <>[](\A e \in DOMAIN world : world[e].fade.fade_in)

---------------------------------------------------------------------------
(* The per-frame budgets *)

\* C2: one invocation of chunk_generator_system on N pending commands with a
\* pool of T threads spawns at most 40 * T generate_chunk tasks, and when
\* N < 40 * T (every command being a Generate) it spawns N tasks, writes N
\* chunks back and leaves the queue empty.
C2_ChunkBudget ==
    chunk_note.kind = "ran" =>
        /\ Len(chunk_note.tasks) <= CHUNK_CREATIONS_PER_THREAD * thread_num
        /\ chunk_note.len < CHUNK_CREATIONS_PER_THREAD * thread_num =>
                /\ Len(chunk_note.tasks) = chunk_note.len
                /\ chunk_note.num_generates = chunk_note.len
                /\ chunk_note.left = 0

\* An invocation that found more commands than the budget and stopped at it.
C2_Witness ==
    /\ chunk_note.kind = "ran"
    /\ chunk_note.len > CHUNK_CREATIONS_PER_THREAD * thread_num
    /\ Len(chunk_note.tasks) = CHUNK_CREATIONS_PER_THREAD * thread_num
    /\ chunk_note.left = chunk_note.len - CHUNK_CREATIONS_PER_THREAD * thread_num

\* C3 as stated: one invocation of apply_mesh_commands with a pool of T
\* threads spawns at most 40 * T create_mesh_for_chunk tasks, first run or
\* not.
C3_MeshBudget ==
    mesh_note.kind = "ran" =>
        Len(mesh_note.tasks) <= MESH_CREATIONS_PER_THREAD * thread_num

---------------------------------------------------------------------------
(* Order of consumption of the two queues *)

---------------------------------------------------------------------------
(* The LOD controller *)

\* C5: a run of level_of_detail_system that finds no tagged camera, or finds
\* the camera's lod-0 chunk equal to LodState.old_lod0_center, leaves the
\* MeshCommandQueue and the LodState as they are and makes no clipmap query.
C5_NoOpOnUnchangedCenter ==
    [][ ( /\ level_of_detail_system
          /\ \/ camera = NoCamera
             \/ camera_lod0_center(voxel_map_config, camera) = lod_state.old_lod0_center )
        => /\ mesh_commands' = mesh_commands
           /\ lod_state' = lod_state
           /\ clipmap_call' = clipmap_call ]_vars

\* The controller has returned early on an unchanged center, after an
\* earlier run that did query the updates.
C5_Witness ==
    /\ pc = "mesh_generator"
    /\ lod_note.kind = "unchanged"
    /\ clipmap_call.query = "updates"

\* C6 as stated: the stored old_lod0_center and every center handed to a
\* clipmap query have y = 0.
C6_CentersHaveZeroY ==
    /\ lod_state.old_lod0_center[2] = 0
    /\ \A center \in clipmap_call.centers : center[2] = 0

---------------------------------------------------------------------------
(* The configuration *)

\* C11 as stated: a VoxelMapConfig with num_lods > MAX_LODS is rejected when
\* it is constructed, so that the generation of a VoxelMap never starts from
\* one: once setup_world has generated the map, num_lods <= MAX_LODS.
C11_TooManyLodsRejected ==
    pc # "setup_world" => voxel_map_config.num_lods <= MAX_LODS

\* C12: from the default configuration and after any sequence of R, C and L
\* key presses, 1 <= num_lods <= 6, 1 <= chunk_log2 <= 6, clip_box_radius is
\* a power of two in [1, 32], and on every axis chunk_shape is 2^chunk_log2
\* and superchunk_shape is 2^(chunk_log2 + num_lods - 1).
C12_ConfigWellFormed ==
    LET cfg == voxel_map_config
    IN  /\ 1 <= cfg.num_lods /\ cfg.num_lods <= 6
        /\ 1 <= cfg.chunk_log2 /\ cfg.chunk_log2 <= 6
        /\ cfg.clip_box_radius \in {1, 2, 4, 8, 16, 32}
        /\ \A axis \in 1..3 :
            /\ cfg.chunk_shape[axis] = 2 ^ cfg.chunk_log2
            /\ cfg.superchunk_shape[axis] = 2 ^ (cfg.chunk_log2 + cfg.num_lods - 1)

\* All three settings have gone past their maximum and wrapped to 1, in a
\* frame in which the three keys were pressed at once.
C12_Witness ==
    /\ pc = "voxel_map_config_changed"
    /\ keyboard_input = Keys
    /\ voxel_map_config.num_lods = 1
    /\ voxel_map_config.chunk_log2 = 1
    /\ voxel_map_config.clip_box_radius = 1

\* C13: whenever VoxelMapConfig has changed, by the end of
\* voxel_map_config_changed_system in that frame the VoxelMap is rebuilt
\* from the new configuration, ChunkMeshes.entities and remove_queue are
\* empty with all their entities despawned, MeshCommandQueue holds exactly
\* the Create commands of the new active set, and LodState.old_lod0_center
\* is the camera's current center.
C13_RebuiltOnConfigChange ==
    [][(pc = "voxel_map_config_changed" /\ keyboard_input # {}) =>
        /\ lod0_chunks' = generate_map(voxel_map_config)
        /\ chunk_meshes' = [entities |-> EmptyMap, remove_queue |-> EmptyMap]
        /\ \A k \in DOMAIN chunk_meshes.entities :
               chunk_meshes.entities[k] \notin DOMAIN world'
        /\ \A k \in DOMAIN chunk_meshes.remove_queue :
               chunk_meshes.remove_queue[k] \notin DOMAIN world'
        /\ mesh_commands' # <<>>
        /\ camera # NoCamera =>
              LET center == camera_lod0_center(voxel_map_config, camera)
              IN  /\ mesh_commands' =
                        enqueue_all(<<>>, Creates(active_clipmap_lod_chunks(
                                                    voxel_map_config, center)))
                  /\ lod_state'.old_lod0_center = center]_vars

---------------------------------------------------------------------------
(* The mesh commands, one at a time *)

\* C14: a task result of None or with an empty index list spawns no entity
\* and does not put its key into ChunkMeshes.entities, and every key of
\* ChunkMeshes.entities maps to an entity whose mesh has a non-empty index
\* list.
C14_NoZeroTriangleEntities ==
    [][pc = "mesh_generator" =>
        LET tasks == mesh_note'.tasks
            some == { i \in 1..Len(tasks) :
                        MeshBufFor(meshable, empty_meshes, tasks[i]).indices > 0 }
        IN  /\ \A i \in (1..Len(tasks)) \ some :
                   /\ tasks[i] \notin DOMAIN chunk_meshes'.entities
                   /\ \A e \in DOMAIN world' \ DOMAIN world :
                          world'[e].lod_chunk_key # tasks[i]
            /\ next_entity' - next_entity = Cardinality(some)
            /\ Cardinality(DOMAIN world' \ DOMAIN world) = Cardinality(some)
            /\ \A k \in DOMAIN chunk_meshes'.entities :
                   /\ chunk_meshes'.entities[k] \in DOMAIN world'
                   /\ world'[chunk_meshes'.entities[k]].indices > 0]_vars

\* One invocation has had a task that returned None and a task that
\* returned a buffer without indices, and neither key is in
\* ChunkMeshes.entities, which holds other keys.
C14_Witness ==
    /\ pc = "frame"
    /\ mesh_note.kind = "ran"
    /\ DOMAIN chunk_meshes.entities # {}
    /\ \E i, j \in 1..Len(mesh_note.tasks) :
          /\ ~MeshBufFor(meshable, empty_meshes, mesh_note.tasks[i]).some
          /\ MeshBufFor(meshable, empty_meshes, mesh_note.tasks[j]).some
          /\ mesh_note.tasks[j] \in empty_meshes
          /\ mesh_note.tasks[i] \notin DOMAIN chunk_meshes.entities
          /\ mesh_note.tasks[j] \notin DOMAIN chunk_meshes.entities

\* C15: an entity spawned by spawn_mesh_entities has a static rigid body and
\* a trimesh collider if and only if its key has lod 0, and the collider
\* has one triangle per three entries of the mesh's index list.
C15_ColliderAtLodZeroOnly ==
    [][pc = "mesh_generator" =>
        \A e \in DOMAIN world' \ DOMAIN world :
            LET spawned == world'[e]
            IN  IF KeyLod(spawned.lod_chunk_key) = 0
                THEN /\ spawned.body = "Static"
                     /\ spawned.collider
                     /\ 3 * spawned.triangles = spawned.indices
                ELSE /\ spawned.body = "None"
                     /\ ~spawned.collider]_vars

\* One invocation has spawned an entity at lod 0 and an entity above it.
C15_Witness ==
    /\ pc = "frame"
    /\ mesh_note.kind = "ran"
    /\ \E i, j \in 1..Len(mesh_note.tasks) :
          /\ KeyLod(mesh_note.tasks[i]) = 0
          /\ KeyLod(mesh_note.tasks[j]) > 0
          /\ \A k \in {mesh_note.tasks[i], mesh_note.tasks[j]} :
                /\ k \in DOMAIN chunk_meshes.entities
                /\ chunk_meshes.entities[k] \in DOMAIN world
                /\ world[chunk_meshes.entities[k]].fade = FADE_IN

\* C16: when an invocation processes one command and it is a Split or a
\* Merge, every old key that was in ChunkMeshes.entities is removed from
\* it and put into remove_queue with the same entity and mesh, the entity
\* being given FADE_OUT; an old key that was not in entities is in neither
\* map afterwards unless it was; and the tasks spawned are those of the new
\* keys that were not in entities, one each.
C16_UpdateRetiresOldTasksNew ==
    [][(/\ pc = "mesh_generator"
        /\ Len(mesh_note'.order) = 1
        /\ mesh_commands[mesh_note'.order[1]].type # "Create") =>
        LET update == mesh_commands[mesh_note'.order[1]]
            old == IF update.type = "Split" THEN {update.chunk}
                   ELSE SeqToSet(update.chunks)
            new == IF update.type = "Split" THEN SeqToSet(update.chunks)
                   ELSE {update.chunk}
            entities == chunk_meshes.entities
            absent == new \ DOMAIN entities
        IN  /\ \A k \in old \cap DOMAIN entities :
                   /\ k \notin DOMAIN chunk_meshes'.entities
                   /\ k \in DOMAIN chunk_meshes'.remove_queue
                   /\ chunk_meshes'.remove_queue[k] = entities[k]
                   /\ world'[entities[k]].mesh = world[entities[k]].mesh
                   /\ world'[entities[k]].fade = FADE_OUT
            /\ \A k \in old \ DOMAIN entities :
                   /\ k \notin DOMAIN chunk_meshes'.entities
                   /\ k \in DOMAIN chunk_meshes'.remove_queue
                        <=> k \in DOMAIN chunk_meshes.remove_queue
                   /\ k \in DOMAIN chunk_meshes.remove_queue
                        => chunk_meshes'.remove_queue[k] = chunk_meshes.remove_queue[k]
            /\ SeqToSet(mesh_note'.tasks) = absent
            /\ Len(mesh_note'.tasks) = Cardinality(absent)]_vars

\* An invocation has processed one command, which has retired a chunk
\* that had an entity, now in remove_queue with FADE_OUT, and has spawned
\* tasks.
C16_Witness ==
    /\ pc = "frame"
    /\ mesh_note.kind = "ran"
    /\ Len(mesh_note.order) = 1
    /\ mesh_note.retired # {}
    /\ mesh_note.tasks # <<>>
    /\ \E k \in DOMAIN chunk_meshes.remove_queue :
          /\ chunk_meshes.remove_queue[k] \in mesh_note.retired
          /\ world[chunk_meshes.remove_queue[k]].fade = FADE_OUT

\* C20: when the commands an invocation processes are all Create
\* commands: for a key that is in ChunkMeshes.entities no task is spawned
\* and its entry and entity do not change; for a key that is not, a task is
\* spawned, and a result with indices spawns an entity with FADE_IN
\* (fade_in, remaining = duration) recorded under the key; remove_queue
\* does not change and one entity is spawned per task with indices.  After
\* any invocation the entities recorded under two keys are two entities,
\* each carrying its key.
C20_CreateOnlyIfAbsent ==
    [][pc = "mesh_generator" =>
        /\ (\A i \in 1..Len(mesh_note'.order) :
                mesh_commands[mesh_note'.order[i]].type = "Create") =>
              LET created == { mesh_commands[mesh_note'.order[i]].chunk :
                                 i \in 1..Len(mesh_note'.order) }
                  tasks == mesh_note'.tasks
              IN  /\ \A key \in created \cap DOMAIN chunk_meshes.entities :
                         /\ key \notin SeqToSet(tasks)
                         /\ key \in DOMAIN chunk_meshes'.entities
                         /\ chunk_meshes'.entities[key] = chunk_meshes.entities[key]
                         /\ world'[chunk_meshes.entities[key]] =
                               world[chunk_meshes.entities[key]]
                  /\ \A key \in created \ DOMAIN chunk_meshes.entities :
                         /\ key \in SeqToSet(tasks)
                         /\ MeshBufFor(meshable, empty_meshes, key).indices > 0 =>
                               /\ key \in DOMAIN chunk_meshes'.entities
                               /\ chunk_meshes'.entities[key] \notin DOMAIN world
                               /\ world'[chunk_meshes'.entities[key]].fade = FADE_IN
                               /\ FADE_IN.fade_in
                               /\ FADE_IN.remaining = FADE_IN.duration
                  /\ SeqToSet(tasks) = created \ DOMAIN chunk_meshes.entities
                  /\ DOMAIN chunk_meshes'.entities \ DOMAIN chunk_meshes.entities
                        \subseteq created
                  /\ chunk_meshes'.remove_queue = chunk_meshes.remove_queue
                  /\ Cardinality(DOMAIN world' \ DOMAIN world) =
                        Cardinality({ i \in 1..Len(tasks) :
                            MeshBufFor(meshable, empty_meshes, tasks[i]).indices > 0 })
        /\ \A k1, k2 \in DOMAIN chunk_meshes'.entities :
              /\ world'[chunk_meshes'.entities[k1]].lod_chunk_key = k1
              /\ chunk_meshes'.entities[k1] = chunk_meshes'.entities[k2] => k1 = k2]_vars

\* An invocation has processed two commands and retired nothing: one has
\* spawned a task, whose entity is recorded with FADE_IN, and the other,
\* still at the front of the queue, is a Create for another key, which has
\* an entity.
C20_Witness ==
    /\ pc = "frame"
    /\ mesh_note.kind = "ran"
    /\ Len(mesh_note.order) = 2
    /\ mesh_note.retired = {}
    /\ Len(mesh_note.tasks) = 1
    /\ mesh_note.tasks[1] \in DOMAIN chunk_meshes.entities
    /\ world[chunk_meshes.entities[mesh_note.tasks[1]]].fade = FADE_IN
    /\ mesh_commands # <<>>
    /\ mesh_commands[1].type = "Create"
    /\ mesh_commands[1].chunk \in DOMAIN chunk_meshes.entities
    /\ mesh_commands[1].chunk # mesh_note.tasks[1]

\* C18: after an invocation of apply_mesh_commands the commands removed
\* from MeshCommandQueue are exactly the commands it processed and the
\* remaining ones are the unprocessed ones in their original order, for
\* any queue contents.  The loop takes the commands from the back, so the
\* unprocessed ones are the front of the queue.
C18_QueueAccounting ==
    [][pc = "mesh_generator" =>
        mesh_commands' =
            SubSeq(mesh_commands, 1, Len(mesh_commands) - Len(mesh_note'.order))]_vars

\* C17: if within one invocation of mesh_generator_system a command that
\* spawns a task for key K (a Create(K), or an Update with K among its new
\* chunks) is followed by a Split with old_chunk K or a Merge with K among
\* its old_chunks, then after spawn_mesh_entities K has no live entity in
\* ChunkMeshes.entities.
C17_SupersededInBatch ==
    [][pc = "mesh_generator" =>
        LET order == mesh_note'.order
            NewKeys(c) == IF c.type = "Split" THEN SeqToSet(c.chunks) ELSE {c.chunk}
            OldKeys(c) == IF c.type = "Split" THEN {c.chunk}
                          ELSE IF c.type = "Merge" THEN SeqToSet(c.chunks) ELSE {}
        IN  \A a, b \in 1..Len(order) :
                a < b =>
                    \A K \in NewKeys(mesh_commands[order[a]])
                              \cap OldKeys(mesh_commands[order[b]]) :
                        (/\ K \notin DOMAIN chunk_meshes.entities
                         /\ K \in SeqToSet(mesh_note'.tasks))
                        => K \notin DOMAIN chunk_meshes'.entities]_vars

\* C19: when the camera's lod-0 chunk differs from LodState.old_lod0_center,
\* level_of_detail_system enqueues one Update per update yielded by
\* find_clipmap_chunk_updates(old, new), each pushed at the front in the
\* order yielded, sets old_lod0_center to the new center and changes
\* nothing else; after every run with a camera old_lod0_center is the
\* camera's center.
C19_LodEnqueuesUpdates ==
    [][(pc = "level_of_detail" /\ camera # NoCamera) =>
        LET center == camera_lod0_center(voxel_map_config, camera)
            old == lod_state.old_lod0_center
            updates == find_clipmap_chunk_updates(voxel_map_config, old, center)
            n == Len(updates)
        IN  /\ center # old =>
                  /\ Len(mesh_commands') = Len(mesh_commands) + n
                  /\ \A i \in 1..n : mesh_commands'[n + 1 - i] = updates[i]
                  /\ \A i \in 1..Len(mesh_commands) :
                         mesh_commands'[n + i] = mesh_commands[i]
                  /\ UNCHANGED <<chunk_meshes, world, next_entity, mesh_assets,
                                 lod0_chunks, chunk_commands, voxel_map_config,
                                 app_state, camera>>
            /\ lod_state'.old_lod0_center = center]_vars

\* A run has seen the camera in another chunk than the stored one and has
\* put an update in front of Create commands that were waiting, and the
\* stored center is now the camera's.
C19_Witness ==
    /\ pc = "mesh_generator"
    /\ lod_note.kind = "updated"
    /\ lod_state.old_lod0_center = camera_lod0_center(voxel_map_config, camera)
    /\ \E i, j \in 1..Len(mesh_commands) :
          /\ i < j
          /\ mesh_commands[i].type \in {"Split", "Merge"}
          /\ mesh_commands[j].type = "Create"

---------------------------------------------------------------------------
(* Errors, resources and the states of the application *)

\* C21: an invocation of mesh_generator_system that processes a Split or a
\* Merge none of whose old chunks has an entity in ChunkMeshes.entities
\* halts in an error state.
C21_MissingEntityHalts ==
    [][pc = "mesh_generator" =>
        LET order == mesh_note'.order
            OldKeys(c) == IF c.type = "Split" THEN {c.chunk}
                          ELSE IF c.type = "Merge" THEN SeqToSet(c.chunks) ELSE {}
        IN  (\E i \in 1..Len(order) :
                /\ mesh_commands[order[i]].type # "Create"
                /\ OldKeys(mesh_commands[order[i]])
                      \cap DOMAIN chunk_meshes.entities = {})
            => pc' = "crashed"]_vars

\* C22: at every call of greedy_quads the thread-local neighborhood
\* buffer's extent, minimum and shape, is the padded chunk extent of the
\* key being meshed, also after chunk_log2 has changed since the buffer
\* was created.  The shape is set once and the configuration does not
\* change within an invocation, so the buffer is compared after the last
\* task of each invocation.
C22_BufferExtentIsPadded ==
    [][(pc = "mesh_generator" /\ mesh_note'.tasks # <<>>) =>
        buffer_extent' =
            padded_chunk_extent(voxel_map_config,
                                mesh_note'.tasks[Len(mesh_note'.tasks)])]_vars

\* C30: with a fixed chunk shape, in every call of create_mesh_for_chunk
\* on a reused thread-local buffer, the buffer given to greedy_quads holds
\* the current chunk's voxels in its interior (EMPTY where the chunk is
\* absent) and EMPTY in its padding.
C30_NoStaleVoxels ==
    [][pc = "mesh_task" =>
        /\ \A point \in extent_for_chunk_at_key :
               neighborhood_buffer'[point] = voxels[point]
        /\ \A point \in padded_greedy_quads_chunk_extent \ extent_for_chunk_at_key :
               neighborhood_buffer'[point] = EMPTY]_vars

\* An absent chunk has been meshed with a buffer that held the voxels of
\* the chunk meshed before: no quad was found.
C30_Witness ==
    /\ pc = "mesh_task_done"
    /\ mesh_result.reused
    /\ \A point \in extent_for_chunk_at_key : voxels[point] = EMPTY
    /\ mesh_result.kind = "None"

\* C23: in every invocation of chunk_generator_system, on any mix of
\* Generate, Edit and Remove commands, generated_chunks.pop().unwrap() does
\* not fail and no result is left over; the j-th Generate visited by the
\* write-back pass is the j-th Generate visited by the spawn pass and gets
\* the result of the j-th task; and the commands truncated from the queue
\* are exactly those the write-back pass visited.
C23_WriteBackMatchesSpawn ==
    [][pc = "chunk_generator" =>
        LET note == chunk_note'
            spawned == SelectSeq(note.order,
                                 LAMBDA i : chunk_commands[i].type = "Generate")
        IN  /\ pc' # "crashed"
            /\ note.unclaimed = 0
            /\ Len(note.received) = Len(note.tasks)
            /\ \A j \in 1..Len(note.received) : note.received[j] = <<spawned[j], j>>
            /\ SeqToSet(note.written) = (note.left + 1)..note.len
            /\ chunk_commands' = SubSeq(chunk_commands, 1, note.left)]_vars

\* An invocation that stopped at the budget with commands left, having
\* visited commands other than Generates on its way.
C23_Witness ==
    /\ chunk_note.kind = "ran"
    /\ chunk_note.left > 0
    /\ Len(chunk_note.tasks) = CHUNK_CREATIONS_PER_THREAD * thread_num
    /\ Len(chunk_note.written) > Len(chunk_note.tasks)

\* C24 as stated: when level_of_detail_system runs after
\* chunk_generator_system, VoxelMap.index covers every chunk stored in
\* level 0, those just written included.
C24_IndexCoversLevelZero ==
    pc = "level_of_detail" => lod0_chunks \subseteq voxel_map_index

---------------------------------------------------------------------------
(* Overlap, leaks, the application's states, draining, duplicates *)

\* C25 as stated: whenever MeshCommandQueue is empty, ChunkMeshes.entities
\* holds no key together with one of its ancestors in the octree.
C25_NoOverlappingMeshes ==
    mesh_commands = <<>> =>
        \A above, below \in DOMAIN chunk_meshes.entities :
            KeyLod(above) > KeyLod(below) =>
                PointShr(KeyPoint(below), KeyLod(above) - KeyLod(below)) # KeyPoint(above)

\* C26 as stated: every live chunk mesh entity is recorded in exactly one
\* of ChunkMeshes.entities and ChunkMeshes.remove_queue, and an entity whose
\* fade is a fade-out is in remove_queue.
C26_NoLeakedEntities ==
    LET recorded(map) == { map[key] : key \in DOMAIN map }
    IN  \A e \in DOMAIN world :
            /\ (e \in recorded(chunk_meshes.entities))
                    # (e \in recorded(chunk_meshes.remove_queue))
            /\ ~world[e].fade.fade_in => e \in recorded(chunk_meshes.remove_queue)

\* C27 as stated: AppState changes from Loading to Preparing and from
\* Preparing to Running only, and in every invocation of
\* mesh_generator_system made while the state is Running first_run is
\* false, so that the transition to Running is not requested again.
C27_RunningRequestedOnce ==
    [][/\ app_state' # app_state =>
              \/ app_state = "Loading" /\ app_state' = "Preparing"
              \/ app_state = "Preparing" /\ app_state' = "Running"
       /\ (pc = "mesh_generator" /\ app_state = "Running") =>
              ~mesh_note'.first_run]_vars

\* C28 as stated: with no new command enqueued (the camera stays in its
\* chunk) and frames running for ever, MeshCommandQueue is empty at some
\* time, whatever the queue and ChunkMeshes.entities held at the start.
C28_MeshQueueDrains ==
    ([]<><<frame>>_vars) => <>(mesh_commands = <<>>)

\* C29 as stated: ChunkCommandQueue never holds two Generate commands for
\* the same chunk key.
C29_NoDuplicateGenerate ==
    \A i, j \in 1..Len(chunk_commands) :
        (/\ i < j
         /\ chunk_commands[i].type = "Generate"
         /\ chunk_commands[j].type = "Generate")
        => chunk_commands[i].key # chunk_commands[j].key

=============================================================================
